---- MODULE Spec2Model ----
(***************************************************************************)
(* Search-engine result comparison (Search-Engine-Results/src).            *)
(*                                                                         *)
(* A string is a sequence of one-character strings, so that parsing,       *)
(* trimming and prefix tests are computed character by character.  Every   *)
(* list entry is a string, as the functions' signatures declare.           *)
(* Floating-point results are held as scaled integers: a percentage in     *)
(* tenths (38.5 is 385), a correlation in thousandths (-1.25 is -1250).    *)
(***************************************************************************)
EXTENDS Integers, Sequences, FiniteSets, TLC

VARIABLES
    urlA, urlB,          \* normalizer: the two URL strings whose keys are compared
    keyA, keyB,          \* normalizer: normalize_url's return value for each
    raisedN,             \* normalizer: an exception escaped normalize_url
    npc,                 \* normalizer: "start", "a_done", "done"
    google_urls,         \* comparator: listA, the baseline list
    yahoo_urls,          \* comparator: listB
    op,                  \* comparator: the function called last ("none" before any call)
    matches,             \* comparator: the list find_url_matches built in that call
    value,               \* comparator: the number returned (tenths or thousandths)
    divided,             \* comparator: the call executed a division
    raised,              \* comparator: the call ended in an exception
    denominator,         \* comparator: n * (n * n - 1) as the call computed it, -1 if it did not
    google_reranks,      \* comparator: the listA re-ranks the call built, if it built them
    yahoo_reranks,       \* comparator: the listB re-ranks the call built, if it built them
    google_results,      \* comparison: the reference mapping, (query, list) in key order
    yahoo_results,       \* comparison: the candidate mapping, (query, list) in key order
    rerank,              \* comparison: TRUE for compare_search_results_rerank
    cpc,                 \* comparison: "start", "loop", "returned", "raised"
    common_queries,      \* comparison: the queries still to analyze, in order
    comparisons,         \* comparison: the result records appended so far
    qid, page,           \* fetch: the query id and page number of the call
    max_retries,         \* fetch: the call's max_retries argument
    attempt,             \* fetch: the loop variable of "for attempt in range(max_retries + 1)"
    responses,           \* fetch: what requests.get produced so far, one entry per request
    fpc,                 \* fetch: "idle", "loop", "returned"
    ok,                  \* fetch: the first element of the returned tuple
    status_code,         \* fetch: the third element of the returned tuple
    writes,              \* fetch: the paths save_html has written, in order
    pages,               \* extraction: per page 1..3, whether its file exists and its redirect links
    top_k,               \* extraction: the argument k
    epc,                 \* extraction: "idle", "start", "extracted", "stored", "skipped"
    top_urls             \* extraction: the list returned or stored for the query

vars == <<urlA, urlB, keyA, keyB, raisedN, npc,
          google_urls, yahoo_urls, op, matches, value, divided, raised,
          denominator, google_reranks, yahoo_reranks,
          google_results, yahoo_results, rerank, cpc, common_queries, comparisons,
          qid, page, max_retries, attempt, responses, fpc, ok, status_code, writes,
          pages, top_k, epc, top_urls>>

normVars == <<urlA, urlB, keyA, keyB, raisedN, npc>>
cmpVars == <<google_urls, yahoo_urls, op, matches, value, divided, raised,
             denominator, google_reranks, yahoo_reranks>>
allVars == <<google_results, yahoo_results, rerank, cpc, common_queries, comparisons>>
fetchVars == <<qid, page, max_retries, attempt, responses, fpc, ok, status_code, writes>>
extractVars == <<pages, top_k, epc, top_urls>>
ioVars == <<fetchVars, extractVars>>

----------------------------------------------------------------------------
(* Sequences and characters *)

Min(S) == CHOOSE x \in S : \A y \in S : x <= y
Max(S) == CHOOSE x \in S : \A y \in S : y <= x
Range(s) == {s[i] : i \in DOMAIN s}

\* s[a..b] with 1-based inclusive indices, empty when a > b
Slice(s, a, b) == IF a > b THEN <<>> ELSE SubSeq(s, a, b)

\* str.find(c, start): the first index >= start holding c, 0 when there is none
Find(s, c, start) ==
    LET hits == {i \in start..Len(s) : s[i] = c}
    IN IF hits = {} THEN 0 ELSE Min(hits)

\* str.rfind(c): the last index holding c, 0 when there is none
RFind(s, c) ==
    LET hits == {i \in 1..Len(s) : s[i] = c}
    IN IF hits = {} THEN 0 ELSE Max(hits)

StartsWith(s, p) == Len(s) >= Len(p) /\ SubSeq(s, 1, Len(p)) = p
EndsWith(s, p) == Len(s) >= Len(p) /\ SubSeq(s, Len(s) - Len(p) + 1, Len(s)) = p

UpperCase == <<"A","B","C","D","E","F","G","H","I","J","K","L","M",
               "N","O","P","Q","R","S","T","U","V","W","X","Y","Z">>
LowerCase == <<"a","b","c","d","e","f","g","h","i","j","k","l","m",
               "n","o","p","q","r","s","t","u","v","w","x","y","z">>
Digits == {"0","1","2","3","4","5","6","7","8","9"}

IsAlpha(c) == c \in Range(UpperCase) \cup Range(LowerCase)

\* str.lower() on one character
LowerChar(c) ==
    IF c \in Range(UpperCase)
    THEN LowerCase[CHOOSE i \in DOMAIN UpperCase : UpperCase[i] = c]
    ELSE c

lower(s) == [i \in DOMAIN s |-> LowerChar(s[i])]

\* the characters str.strip() removes
Whitespace == {" ", "\t", "\n", "\r"}

lstrip(s) ==
    LET keep == {i \in 1..Len(s) : s[i] \notin Whitespace}
    IN IF keep = {} THEN <<>> ELSE SubSeq(s, Min(keep), Len(s))

strip(s) ==
    LET keep == {i \in 1..Len(s) : s[i] \notin Whitespace}
    IN IF keep = {} THEN <<>> ELSE SubSeq(s, Min(keep), Max(keep))

----------------------------------------------------------------------------
(* urllib.parse.urlparse, as called by normalize_url *)

scheme_chars == Range(UpperCase) \cup Range(LowerCase) \cup Digits \cup {"+", "-", "."}

UnsafeBytes == {"\t", "\r", "\n"}
IsSafeByte(c) == c \notin UnsafeBytes

\* the schemes whose last path segment may carry ;parameters
uses_params ==
    { <<>>,
      <<"f","t","p">>, <<"h","d","l">>,
      <<"p","r","o","s","p","e","r","o">>,
      <<"h","t","t","p">>, <<"i","m","a","p">>,
      <<"h","t","t","p","s">>, <<"s","h","t","t","p">>,
      <<"r","t","s","p">>, <<"r","t","s","p","s">>, <<"r","t","s","p","u">>,
      <<"s","i","p">>, <<"s","i","p","s">>, <<"m","m","s">>,
      <<"s","f","t","p">>, <<"t","e","l">> }

\* _splitnetloc(url, 2): the authority runs from the third character to the
\* first of "/", "?", "#"
splitnetloc(url) ==
    LET ends == {i \in 3..Len(url) : url[i] \in {"/", "?", "#"}}
        delim == IF ends = {} THEN Len(url) + 1 ELSE Min(ends)
    IN [netloc |-> Slice(url, 3, delim - 1), rest |-> Slice(url, delim, Len(url))]

\* url.split(c, 1): what precedes the first c, and what follows it
SplitOnce(url, c) ==
    LET i == Find(url, c, 1)
    IN IF i > 0
       THEN [head |-> Slice(url, 1, i - 1), tail |-> Slice(url, i + 1, Len(url))]
       ELSE [head |-> url, tail |-> <<>>]

\* urlsplit, first step: what precedes the first ":" is the scheme when it
\* starts with a letter and holds scheme characters only
SplitScheme(url) ==
    LET i == Find(url, ":", 1)
    IN IF i > 1 /\ IsAlpha(url[1]) /\ \A k \in 1..(i - 1) : url[k] \in scheme_chars
       THEN [scheme |-> lower(Slice(url, 1, i - 1)), rest |-> Slice(url, i + 1, Len(url))]
       ELSE [scheme |-> <<>>, rest |-> url]

\* urlsplit, second step: after "//" comes the authority
SplitAuthority(url) ==
    IF StartsWith(url, <<"/", "/">>)
    THEN splitnetloc(url)
    ELSE [netloc |-> <<>>, rest |-> url]

\* urlsplit, last steps: the fragment is cut off at the first "#", then the
\* query at the first "?".  "raised" stands for the ValueError("Invalid IPv6
\* URL") of an unbalanced bracket in the authority.  The inputs of this
\* model hold no "]" and no non-ASCII character, so the bracketed-host and
\* NFKC checks have nothing to reject.
SplitResult(scheme, netloc, beforeFragment, fragment) ==
    [raised |-> \/ ("[" \in Range(netloc) /\ "]" \notin Range(netloc))
                \/ ("]" \in Range(netloc) /\ "[" \notin Range(netloc)),
     scheme |-> scheme,
     netloc |-> netloc,
     path |-> SplitOnce(beforeFragment, "?").head,
     query |-> SplitOnce(beforeFragment, "?").tail,
     fragment |-> fragment]

SplitRest(scheme, authority) ==
    SplitResult(scheme, authority.netloc,
                SplitOnce(authority.rest, "#").head, SplitOnce(authority.rest, "#").tail)

SplitAfterScheme(s) == SplitRest(s.scheme, SplitAuthority(s.rest))

\* urlsplit: leading whitespace and tab, CR, LF are removed first
urlsplit(url) == SplitAfterScheme(SplitScheme(SelectSeq(lstrip(url), IsSafeByte)))

\* _splitparams: cut at the first ";" of the last path segment
splitparams(url) ==
    LET slash == RFind(url, "/")
        i == IF slash > 0 THEN Find(url, ";", slash) ELSE Find(url, ";", 1)
    IN IF i = 0
       THEN [path |-> url, params |-> <<>>]
       ELSE [path |-> Slice(url, 1, i - 1), params |-> Slice(url, i + 1, Len(url))]

\* urlparse, after urlsplit: the ;parameters are cut off the path
ParseResult(s) ==
    IF s.scheme \in uses_params /\ ";" \in Range(s.path)
    THEN [raised |-> s.raised, scheme |-> s.scheme, netloc |-> s.netloc,
          path |-> splitparams(s.path).path, params |-> splitparams(s.path).params,
          query |-> s.query, fragment |-> s.fragment]
    ELSE [raised |-> s.raised, scheme |-> s.scheme, netloc |-> s.netloc,
          path |-> s.path, params |-> <<>>,
          query |-> s.query, fragment |-> s.fragment]

urlparse(url) == ParseResult(urlsplit(url))

----------------------------------------------------------------------------
(* normalize_url: the comparison-facing normalizer *)

WwwDot == <<"w", "w", "w", ".">>

\* domain + path, then "?" + query and "#" + fragment when present
Join(domain, path, query, fragment) ==
    domain \o path
    \o (IF query # <<>> THEN <<"?">> \o query ELSE <<>>)
    \o (IF fragment # <<>> THEN <<"#">> \o fragment ELSE <<>>)

\* path[:-1] when the path ends with "/" and is longer than one character
StripSlash(path) ==
    IF EndsWith(path, <<"/">>) /\ Len(path) > 1
    THEN Slice(path, 1, Len(path) - 1)
    ELSE path

\* a reassembly that lower-cases the authority before it drops "www."
Reassemble_lower_domain(parsed) ==
    Join(IF StartsWith(lower(parsed.netloc), WwwDot)
         THEN Slice(lower(parsed.netloc), 5, Len(parsed.netloc))
         ELSE lower(parsed.netloc),
         StripSlash(parsed.path), parsed.query, parsed.fragment)

\* the statements after the try block: drop the scheme, a leading "www."
\* label and one trailing slash, then reassemble
Reassemble(parsed) ==
    Join(IF StartsWith(lower(parsed.netloc), WwwDot)
         THEN Slice(parsed.netloc, 5, Len(parsed.netloc))
         ELSE parsed.netloc,
         StripSlash(parsed.path), parsed.query, parsed.fragment)

\* what normalize_url returns: "raised" tells whether an exception leaves
\* the call
Key(k) == [raised |-> FALSE, key |-> k]
Escaped == [raised |-> TRUE, key |-> <<>>]

\* try: parsed = urlparse(url); except Exception: return url
AfterParse(url, parsed) ==
    IF parsed.raised THEN Key(url) ELSE Key(Reassemble(parsed))

\* the same without the try/except
AfterParse_unguarded(url, parsed) ==
    IF parsed.raised THEN Escaped ELSE Key(Reassemble(parsed))

NormalizeStripped(url) == AfterParse(url, urlparse(url))
NormalizeStripped_unguarded(url) == AfterParse_unguarded(url, urlparse(url))

\* a normalize_url whose parse is not wrapped in try/except
normalize_url_unguarded(url) ==
    IF url = <<>> THEN Key(<<>>) ELSE NormalizeStripped_unguarded(strip(url))

\* normalize_url(url)
normalize_url(url) ==
    IF url = <<>> THEN Key(<<>>) ELSE NormalizeStripped(strip(url))

----------------------------------------------------------------------------
(* The URLs the normalizer is run on.  A URL is given by its parts, each a  *)
(* string that is written out as it stands:                                *)
(*   ws1 scheme www host path params query frag ws2                         *)
(* with scheme "" or ending in "://", params "" or starting with ";",       *)
(* query "" or starting with "?", frag "" or starting with "#".            *)

NoStr == <<>>
HttpScheme == <<"h","t","t","p",":","/","/">>
HttpsScheme == <<"h","t","t","p","s",":","/","/">>
WwwUpper == <<"W","W","W",".">>
Sp == <<" ">>

Parts(ws1, scheme, www, host, path, params, query, frag, ws2) ==
    [ws1 |-> ws1, scheme |-> scheme, www |-> www, host |-> host, path |-> path,
     params |-> params, query |-> query, frag |-> frag, ws2 |-> ws2]

\* the string a URL's parts spell
Render(p) ==
    p.ws1 \o p.scheme \o p.www \o p.host \o p.path \o p.params \o p.query \o p.frag \o p.ws2

Schemes == {HttpScheme, HttpsScheme}
WwwLabels == {NoStr, WwwDot, WwwUpper}
Hosts == {<<"a">>, <<"A">>}
Paths == {NoStr, <<"/">>, <<"/","x">>, <<"/","x","/">>, <<"/","X">>}
Queries == {NoStr, <<"?","q">>}

\* scheme://[www.]host[path][?query] in every combination
PlainUrls ==
    {Parts(NoStr, s, w, h, pa, NoStr, q, NoStr, NoStr) :
        s \in Schemes, w \in WwwLabels, h \in Hosts, pa \in Paths, q \in Queries}

\* fragments, the other query spellings, and empty "?" and "#" markers
MarkedUrls ==
    {Parts(NoStr, HttpScheme, NoStr, <<"a">>, pa, NoStr, q, f, NoStr) :
        pa \in {NoStr, <<"/","x">>},
        q \in {NoStr, <<"?">>, <<"?","q">>, <<"?","Q">>},
        f \in {NoStr, <<"#">>, <<"#","f">>, <<"#","F">>}}

\* ;parameters on the last path segment
ParamUrls ==
    {Parts(NoStr, HttpScheme, NoStr, <<"a">>, pa, pr, q, NoStr, NoStr) :
        pa \in {<<"/","x">>, <<"/","x","/">>},
        pr \in {<<";","p">>, <<";","P">>},
        q \in Queries}

\* surrounding whitespace, also around nothing at all
SpacedUrls ==
    {Parts(w1, s, NoStr, <<"a">>, <<"/","x">>, NoStr, NoStr, NoStr, w2) :
        w1 \in {NoStr, Sp}, w2 \in {NoStr, Sp}, s \in {HttpScheme}}
    \cup {Parts(w1, NoStr, NoStr, NoStr, NoStr, NoStr, NoStr, NoStr, NoStr) :
            w1 \in {NoStr, Sp, Sp \o Sp}}

\* an unbalanced "[" in the authority, which urlparse rejects
MalformedUrls ==
    {Parts(w1, s, w, <<"[">>, pa, NoStr, NoStr, NoStr, w2) :
        w1 \in {NoStr, Sp}, s \in Schemes, w \in {NoStr, WwwDot},
        pa \in {NoStr, <<"/","x","/">>}, w2 \in {NoStr, Sp}}

\* no scheme, an empty authority, a doubled "www." label, a doubled slash,
\* a tab inside the path
OddUrls ==
    { Parts(NoStr, NoStr, NoStr, <<"a">>, <<"/","x">>, NoStr, NoStr, NoStr, NoStr),
      Parts(NoStr, NoStr, WwwDot, <<"a">>, <<"/","x">>, NoStr, NoStr, NoStr, NoStr),
      Parts(NoStr, NoStr, NoStr, <<"[">>, NoStr, NoStr, NoStr, NoStr, NoStr),
      Parts(NoStr, HttpScheme, NoStr, NoStr, NoStr, NoStr, NoStr, NoStr, NoStr),
      Parts(NoStr, HttpScheme, WwwDot, NoStr, NoStr, NoStr, NoStr, NoStr, NoStr),
      Parts(NoStr, HttpScheme, WwwDot, <<"w","w","w",".","a">>, NoStr, NoStr, NoStr, NoStr, NoStr),
      Parts(NoStr, HttpScheme, NoStr, <<"a">>, <<"/","x","/","/">>, NoStr, NoStr, NoStr, NoStr),
      Parts(NoStr, HttpsScheme, NoStr, <<"a">>, <<"/","\t","x">>, NoStr, NoStr, NoStr, NoStr) }

UrlInputs == PlainUrls \cup MarkedUrls \cup ParamUrls \cup SpacedUrls \cup MalformedUrls \cup OddUrls

----------------------------------------------------------------------------
(* Normalizer runs: the two keys of a candidate pair, as find_url_matches   *)
(* computes them before it compares them                                   *)

CmpIdle ==
    /\ google_urls = <<>> /\ yahoo_urls = <<>> /\ op = "none"
    /\ matches = <<>> /\ value = 0 /\ divided = FALSE /\ raised = FALSE
    /\ denominator = -1 /\ google_reranks = <<>> /\ yahoo_reranks = <<>>

\* no comparison of two mappings is under way
AllIdle ==
    /\ google_results = <<>> /\ yahoo_results = <<>> /\ rerank = FALSE
    /\ cpc = "idle" /\ common_queries = <<>> /\ comparisons = <<>>

\* no fetch is under way
FetchIdle ==
    /\ qid = 0 /\ page = 0 /\ max_retries = 0 /\ attempt = 0
    /\ responses = <<>> /\ fpc = "idle" /\ ok = FALSE
    /\ status_code = "None" /\ writes = <<>>

\* no extraction is under way
ExtractIdle ==
    /\ pages = <<>> /\ top_k = 0 /\ epc = "idle" /\ top_urls = <<>>

IoIdle == FetchIdle /\ ExtractIdle

InitNormalize ==
    /\ urlA \in UrlInputs
    /\ urlB \in UrlInputs
    /\ keyA = <<>> /\ keyB = <<>>
    /\ raisedN = FALSE
    /\ npc = "start"
    /\ CmpIdle
    /\ AllIdle
    /\ IoIdle

NormalizeA ==
    /\ npc = "start"
    /\ LET r == normalize_url(Render(urlA))
       IN /\ keyA' = r.key
          /\ raisedN' = r.raised
          /\ npc' = IF r.raised THEN "raised" ELSE "a_done"
    /\ UNCHANGED <<urlA, urlB, keyB>>
    /\ UNCHANGED cmpVars
    /\ UNCHANGED allVars
    /\ UNCHANGED ioVars

NormalizeB ==
    /\ npc = "a_done"
    /\ LET r == normalize_url(Render(urlB))
       IN /\ keyB' = r.key
          /\ raisedN' = r.raised
          /\ npc' = IF r.raised THEN "raised" ELSE "done"
    /\ UNCHANGED <<urlA, urlB, keyA>>
    /\ UNCHANGED cmpVars
    /\ UNCHANGED allVars
    /\ UNCHANGED ioVars

NextNormalize == NormalizeA \/ NormalizeB

SpecNormalize == InitNormalize /\ [][NextNormalize]_vars

----------------------------------------------------------------------------
(* find_url_matches *)


\* the inner loop that scans listB from its end instead of its start
FirstYahooMatch_from_end(g_norm, yahoo_normalized, y_idx) ==
    LET hits == {y \in y_idx..Len(yahoo_normalized) :
                    yahoo_normalized[y] # <<>> /\ g_norm = yahoo_normalized[y]}
    IN IF hits = {} THEN 0 ELSE Max(hits)

\* the inner loop "for y_idx, y_norm in enumerate(yahoo_normalized)" from
\* rank y_idx on: the first rank whose key is non-empty and equal to g_norm,
\* where the loop breaks; 0 when the loop runs to its end
RECURSIVE FirstYahooMatch(_, _, _)
FirstYahooMatch(g_norm, yahoo_normalized, y_idx) ==
    IF y_idx > Len(yahoo_normalized)
    THEN 0
    ELSE IF yahoo_normalized[y_idx] # <<>> /\ g_norm = yahoo_normalized[y_idx]
         THEN y_idx
         ELSE FirstYahooMatch(g_norm, yahoo_normalized, y_idx + 1)

\* the outer loop without the inner loop's break: every equal rank is appended
RECURSIVE MatchLoop_no_break(_, _, _)
MatchLoop_no_break(google_normalized, yahoo_normalized, g_idx) ==
    IF g_idx > Len(google_normalized)
    THEN <<>>
    ELSE LET g_norm == google_normalized[g_idx]
             all == [y \in 1..Len(yahoo_normalized) |-> <<g_idx, y>>]
             IsHit(m) == g_norm # <<>> /\ yahoo_normalized[m[2]] = g_norm
         IN SelectSeq(all, IsHit)
            \o MatchLoop_no_break(google_normalized, yahoo_normalized, g_idx + 1)

\* the outer loop without the two emptiness tests
RECURSIVE MatchLoop_no_skip(_, _, _)
MatchLoop_no_skip(google_normalized, yahoo_normalized, g_idx) ==
    IF g_idx > Len(google_normalized)
    THEN <<>>
    ELSE LET g_norm == google_normalized[g_idx]
             hits == {y \in 1..Len(yahoo_normalized) : yahoo_normalized[y] = g_norm}
         IN (IF hits # {} THEN << <<g_idx, Min(hits)>> >> ELSE <<>>)
            \o MatchLoop_no_skip(google_normalized, yahoo_normalized, g_idx + 1)

\* the outer loop with the listB ranks already matched left out of the scan
RECURSIVE ClaimLoop(_, _, _, _)
ClaimLoop(google_normalized, yahoo_normalized, g_idx, claimed) ==
    IF g_idx > Len(google_normalized)
    THEN <<>>
    ELSE LET g_norm == google_normalized[g_idx]
             hits == {y \in DOMAIN yahoo_normalized \ claimed :
                         g_norm # <<>> /\ yahoo_normalized[y] = g_norm}
         IN IF hits = {}
            THEN ClaimLoop(google_normalized, yahoo_normalized, g_idx + 1, claimed)
            ELSE << <<g_idx, Min(hits)>> >>
                 \o ClaimLoop(google_normalized, yahoo_normalized, g_idx + 1,
                              claimed \cup {Min(hits)})

MatchLoop_claiming(google_normalized, yahoo_normalized, g_idx) ==
    ClaimLoop(google_normalized, yahoo_normalized, g_idx, {})

\* the outer loop "for g_idx, g_norm in enumerate(google_normalized)" from
\* rank g_idx on: the matches it appends, in order
RECURSIVE MatchLoop(_, _, _)
MatchLoop(google_normalized, yahoo_normalized, g_idx) ==
    IF g_idx > Len(google_normalized)
    THEN <<>>
    ELSE LET g_norm == google_normalized[g_idx]
             y == IF g_norm # <<>>
                  THEN FirstYahooMatch(g_norm, yahoo_normalized, 1)
                  ELSE 0
         IN (IF y > 0 THEN << <<g_idx, y>> >> ELSE <<>>)
            \o MatchLoop(google_normalized, yahoo_normalized, g_idx + 1)

\* two spellings of one page, a page that differs from it in letter case
\* only, and the empty entry
UrlX1 == Render(Parts(NoStr, HttpScheme, WwwDot, <<"a">>, <<"/","x","/">>, NoStr, NoStr, NoStr, NoStr))
UrlX2 == Render(Parts(NoStr, HttpsScheme, NoStr, <<"a">>, <<"/","x">>, NoStr, NoStr, NoStr, NoStr))
UrlY == Render(Parts(NoStr, HttpScheme, NoStr, <<"A">>, <<"/","x">>, NoStr, NoStr, NoStr, NoStr))
UrlEmpty == NoStr

UrlPool == {UrlX1, UrlX2, UrlY, UrlEmpty}

\* page k of one site in one of two spellings: "http://www.a/k/" and
\* "https://a/k"
PageUrl(k, spelling) ==
    IF spelling = 1
    THEN Render(Parts(NoStr, HttpScheme, WwwDot, <<"a">>, <<"/", k, "/">>, NoStr, NoStr, NoStr, NoStr))
    ELSE Render(Parts(NoStr, HttpsScheme, NoStr, <<"a">>, <<"/", k>>, NoStr, NoStr, NoStr, NoStr))

Spellings == {1, 2}

\* the lists of the docstring's example: pages 1..4 are in both lists, at
\* listA ranks 1, 5, 6, 7 and listB ranks 1, 9, 2, 6; page 5 is only in
\* listA and page 6 only in listB
ExampleListsA ==
    {<<PageUrl("1", sp[1]), PageUrl("5", 1), PageUrl("5", 2), PageUrl("5", 1),
       PageUrl("2", sp[2]), PageUrl("3", sp[3]), PageUrl("4", sp[4])>> :
        sp \in [1..4 -> Spellings]}

ExampleListsB ==
    {<<PageUrl("1", sp[1]), PageUrl("3", sp[3]), PageUrl("6", 1), PageUrl("6", 2),
       PageUrl("6", 1), PageUrl("4", sp[4]), PageUrl("6", 2), PageUrl("6", 1),
       PageUrl("2", sp[2])>> :
        sp \in [1..4 -> Spellings]}

\* 23 pages against the same 23 with one foreign page put in before the
\* last: every match is at equal ranks but the last, at ranks (23, 24)
LongListA == [i \in 1..23 |-> PageUrl(LowerCase[i], 2)]
LongListB == [i \in 1..24 |-> IF i <= 22 THEN PageUrl(LowerCase[i], 1)
                                ELSE IF i = 23 THEN PageUrl("0", 1)
                                ELSE PageUrl(LowerCase[23], 1)]

LongPool == Range(LongListA) \cup Range(LongListB)

ExamplePool == {PageUrl(k, sp) : k \in {"1", "2", "3", "4", "5", "6"}, sp \in Spellings}

\* normalize_url on each entry a list can hold, computed once per entry.
\* normalize_url never raises, so only its key is kept.
normalized ==
    [url \in UrlPool \cup ExamplePool \cup LongPool |-> normalize_url(url).key]

\* find_url_matches(google_urls, yahoo_urls): the (google_rank, yahoo_rank)
\* pairs, 1-indexed
find_url_matches(g_urls, y_urls) ==
    LET google_normalized == [i \in DOMAIN g_urls |-> normalized[g_urls[i]]]
        yahoo_normalized == [i \in DOMAIN y_urls |-> normalized[y_urls[i]]]
    IN MatchLoop(google_normalized, yahoo_normalized, 1)

----------------------------------------------------------------------------
(* Numbers *)

\* the quotient cut off below instead of rounded
RoundHalfEven_floor(num, den) == num \div den

\* round(): the integer nearest to num / den (den > 0), a tie going to the
\* even one
RoundHalfEven(num, den) ==
    LET fl == num \div den
        rem == num % den
    IN IF 2 * rem < den THEN fl
       ELSE IF 2 * rem > den THEN fl + 1
       ELSE IF fl % 2 = 0 THEN fl ELSE fl + 1

\* the re-ranks of a call that built none
NoReranks == [google |-> <<>>, yahoo |-> <<>>]

\* what a call returns: the number, the matches it found on the way,
\* whether it divided, whether it raised instead of returning; the
\* denominator and the re-ranks are filled in by the branch that computes them
Returned(v, m, d) ==
    [value |-> v, matches |-> m, divided |-> d, raised |-> FALSE,
     denominator |-> -1, reranks |-> NoReranks]
Raised(m) ==
    [value |-> 0, matches |-> m, divided |-> TRUE, raised |-> TRUE,
     denominator |-> -1, reranks |-> NoReranks]

----------------------------------------------------------------------------
(* calculate_percent_overlap, in tenths of a percent *)

\* the overlap without the "if not google_urls" guard
PercentOf_no_guard(g_urls, y_urls, m) ==
    IF Len(g_urls) = 0
    THEN Raised(m)
    ELSE Returned(RoundHalfEven(Len(m) * 1000, Len(g_urls)), m, TRUE)

calculate_percent_overlap_no_guard(g_urls, y_urls) ==
    PercentOf_no_guard(g_urls, y_urls, find_url_matches(g_urls, y_urls))

\* the overlap taken against listB's length
PercentOf_yahoo_base(g_urls, y_urls, m) ==
    IF g_urls = <<>> \/ y_urls = <<>>
    THEN Returned(0, m, FALSE)
    ELSE Returned(RoundHalfEven(Len(m) * 1000, Len(y_urls)), m, TRUE)

calculate_percent_overlap_yahoo_base(g_urls, y_urls) ==
    PercentOf_yahoo_base(g_urls, y_urls, find_url_matches(g_urls, y_urls))

\* the statements after "matches = find_url_matches(...)"
PercentOf(g_urls, y_urls, m) ==
    IF g_urls = <<>>
    THEN Returned(0, m, FALSE)
    ELSE Returned(RoundHalfEven(Len(m) * 1000, Len(g_urls)), m, TRUE)

calculate_percent_overlap(g_urls, y_urls) ==
    PercentOf(g_urls, y_urls, find_url_matches(g_urls, y_urls))

----------------------------------------------------------------------------
(* calculate_spearman_correlation (global ranks), in thousandths *)

\* the loop that sums the differences without squaring them
RECURSIVE sum_d_not_squared(_, _)
sum_d_not_squared(google_ranks, yahoo_ranks) ==
    IF google_ranks = <<>>
    THEN 0
    ELSE LET d == Head(google_ranks) - Head(yahoo_ranks)
         IN (IF d < 0 THEN -d ELSE d) + sum_d_not_squared(Tail(google_ranks), Tail(yahoo_ranks))

\* the loop "d = rank - rank; sum_d_squared += d * d" over paired ranks
RECURSIVE sum_d_squared(_, _)
sum_d_squared(google_ranks, yahoo_ranks) ==
    IF google_ranks = <<>>
    THEN 0
    ELSE LET d == Head(google_ranks) - Head(yahoo_ranks)
         IN d * d + sum_d_squared(Tail(google_ranks), Tail(yahoo_ranks))

First(m) == [i \in DOMAIN m |-> m[i][1]]
Second(m) == [i \in DOMAIN m |-> m[i][2]]

\* rho forced into [-1, 1]
Rho_clamped(denom, sum, m) ==
    IF denom = 0
    THEN [Returned(0, m, FALSE) EXCEPT !.denominator = denom]
    ELSE [Returned(IF 6 * sum > 2 * denom THEN -1000
                   ELSE RoundHalfEven(1000 * (denom - 6 * sum), denom), m, TRUE)
             EXCEPT !.denominator = denom]

\* rho = 1 - 6 * sum / denominator, rounded to 3 decimals; 0.0 when the
\* denominator is 0
Rho(denom, sum, m) ==
    IF denom = 0
    THEN [Returned(0, m, FALSE) EXCEPT !.denominator = denom]
    ELSE [Returned(RoundHalfEven(1000 * (denom - 6 * sum), denom), m, TRUE)
             EXCEPT !.denominator = denom]

SpearmanFormula(n, sum, m) == Rho(n * (n * n - 1), sum, m)

\* the branches with 1.0 returned for no match
SpearmanOf_empty_is_one(m, google_ranks, yahoo_ranks) ==
    IF Len(m) = 0 THEN Returned(1000, m, FALSE)
    ELSE IF Len(m) = 1
         THEN Returned(IF m[1][1] = m[1][2] THEN 1000 ELSE 0, m, FALSE)
         ELSE SpearmanFormula(Len(m), sum_d_squared(google_ranks, yahoo_ranks), m)

\* the branches with 1.0 returned for a single match, whatever its ranks
SpearmanOf_single_always_one(m, google_ranks, yahoo_ranks) ==
    IF Len(m) = 0 THEN Returned(0, m, FALSE)
    ELSE IF Len(m) = 1
         THEN Returned(1000, m, FALSE)
         ELSE SpearmanFormula(Len(m), sum_d_squared(google_ranks, yahoo_ranks), m)

\* the branches without the one for a single match
SpearmanOf_no_single_branch(m, google_ranks, yahoo_ranks) ==
    IF Len(m) = 0 THEN Returned(0, m, FALSE)
    ELSE SpearmanFormula(Len(m), sum_d_squared(google_ranks, yahoo_ranks), m)

\* the branches on len(matches): 0, 1, and the formula over the given ranks
SpearmanOf(m, google_ranks, yahoo_ranks) ==
    IF Len(m) = 0 THEN Returned(0, m, FALSE)
    ELSE IF Len(m) = 1
         THEN Returned(IF m[1][1] = m[1][2] THEN 1000 ELSE 0, m, FALSE)
         ELSE SpearmanFormula(Len(m), sum_d_squared(google_ranks, yahoo_ranks), m)

\* the statements after "matches = find_url_matches(...)"
GlobalOf(m) == SpearmanOf(m, First(m), Second(m))

calculate_spearman_correlation(g_urls, y_urls) ==
    GlobalOf(find_url_matches(g_urls, y_urls))

----------------------------------------------------------------------------
(* calculate_spearman_correlation_rerank, in thousandths *)

\* sorted(): a stable sort, here by insertion, of tuples by their first
\* component (a list of numbers is sorted as a list of 1-tuples)
RECURSIVE InsertSorted(_, _)
InsertSorted(x, s) ==
    IF s = <<>> THEN <<x>>
    ELSE IF x[1] < Head(s)[1]
         THEN <<x>> \o s
         ELSE <<Head(s)>> \o InsertSorted(x, Tail(s))

\* inserting from the last element back keeps equal keys in their order
RECURSIVE sorted(_)
sorted(s) ==
    IF s = <<>> THEN <<>>
    ELSE InsertSorted(Head(s), sorted(Tail(s)))

\* the list left in the order it came in
sorted_numbers_unsorted(s) == s

sorted_numbers(s) == First(sorted([i \in DOMAIN s |-> <<s[i]>>]))

\* each listB rank mapped to itself
yahoo_rank_to_rerank_identity(yahoo_ranks_sorted) ==
    [rank \in Range(yahoo_ranks_sorted) |-> rank]

\* {rank: i + 1 for i, rank in enumerate(yahoo_ranks_sorted)}: a later entry
\* of the same rank overwrites the earlier one
yahoo_rank_to_rerank(yahoo_ranks_sorted) ==
    [rank \in Range(yahoo_ranks_sorted) |->
        Max({i \in DOMAIN yahoo_ranks_sorted : yahoo_ranks_sorted[i] = rank})]

\* yahoo_reranks: each match's listB rank looked up in the mapping
YahooReranks(yahoo_ranks_in_google_order, to_rerank) ==
    [i \in DOMAIN yahoo_ranks_in_google_order |-> to_rerank[yahoo_ranks_in_google_order[i]]]

YahooReranksOf(yahoo_ranks_in_google_order) ==
    YahooReranks(yahoo_ranks_in_google_order,
                 yahoo_rank_to_rerank(sorted_numbers(yahoo_ranks_in_google_order)))

\* the re-ranked sequences with the listA side counted from 0
ReranksOfSorted_zero_based(matches_sorted_by_google) ==
    [google |-> [i \in 1..Len(matches_sorted_by_google) |-> i - 1],
     yahoo |-> YahooReranksOf(Second(matches_sorted_by_google))]

\* the two re-ranked sequences of the n >= 2 branch
ReranksOfSorted(matches_sorted_by_google) ==
    [google |-> [i \in 1..Len(matches_sorted_by_google) |-> i],
     yahoo |-> YahooReranksOf(Second(matches_sorted_by_google))]

Reranks(m) == ReranksOfSorted(sorted(m))

\* the n >= 2 branch, given the re-ranks it built
RerankFormula(m, r) == [SpearmanOf(m, r.google, r.yahoo) EXCEPT !.reranks = r]

\* the statements after "matches = find_url_matches(...)"; the re-ranks
\* are only computed in the n >= 2 branch
RerankOf(m) ==
    IF Len(m) >= 2
    THEN RerankFormula(m, Reranks(m))
    ELSE SpearmanOf(m, <<>>, <<>>)

calculate_spearman_correlation_rerank(g_urls, y_urls) ==
    RerankOf(find_url_matches(g_urls, y_urls))

----------------------------------------------------------------------------
(* Comparator runs: two ranked lists, and calls of the four functions in    *)
(* any order                                                               *)

MaxLenA == 3
MaxLenB == 3

ListsUpTo(n) == UNION {[1..k -> UrlPool] : k \in 0..n}

NormIdle ==
    /\ urlA = Parts(NoStr, NoStr, NoStr, NoStr, NoStr, NoStr, NoStr, NoStr, NoStr)
    /\ urlB = urlA
    /\ keyA = <<>> /\ keyB = <<>> /\ raisedN = FALSE /\ npc = "idle"

Init ==
    /\ google_urls \in ListsUpTo(MaxLenA) \cup ExampleListsA \cup {LongListA}
    /\ yahoo_urls \in ListsUpTo(MaxLenB) \cup ExampleListsB \cup {LongListB}
    /\ op = "none"
    /\ matches = <<>> /\ value = 0 /\ divided = FALSE /\ raised = FALSE
    /\ denominator = -1 /\ google_reranks = <<>> /\ yahoo_reranks = <<>>
    /\ NormIdle
    /\ AllIdle
    /\ IoIdle

\* a direct call (not one made from the comparison loop) returns r: the
\* caller sees the value (or the exception); the lists are the caller's and
\* the call does not touch them
Return(r) ==
    /\ cpc = "idle"
    /\ matches' = r.matches
    /\ value' = r.value
    /\ divided' = r.divided
    /\ raised' = r.raised
    /\ denominator' = r.denominator
    /\ google_reranks' = r.reranks.google
    /\ yahoo_reranks' = r.reranks.yahoo
    /\ UNCHANGED <<google_urls, yahoo_urls>>
    /\ UNCHANGED normVars
    /\ UNCHANGED ioVars
    /\ UNCHANGED allVars

FindUrlMatches ==
    /\ op' = "find_url_matches"
    /\ Return(Returned(0, find_url_matches(google_urls, yahoo_urls), FALSE))

CalculatePercentOverlap ==
    /\ op' = "calculate_percent_overlap"
    /\ Return(calculate_percent_overlap(google_urls, yahoo_urls))

CalculateSpearmanCorrelation ==
    /\ op' = "calculate_spearman_correlation"
    /\ Return(calculate_spearman_correlation(google_urls, yahoo_urls))

CalculateSpearmanCorrelationRerank ==
    /\ op' = "calculate_spearman_correlation_rerank"
    /\ Return(calculate_spearman_correlation_rerank(google_urls, yahoo_urls))

Next ==
    \/ FindUrlMatches
    \/ CalculatePercentOverlap
    \/ CalculateSpearmanCorrelation
    \/ CalculateSpearmanCorrelationRerank

Spec == Init /\ [][Next]_vars

----------------------------------------------------------------------------
(* compare_search_results and compare_search_results_rerank: two mappings   *)
(* from query to ranked list, compared query by query.  A mapping is held   *)
(* as the sequence of its (query, list) entries in key order, the order in  *)
(* which a dict is iterated.                                                *)

QueryNames == {"q1", "q2", "q3", "q4"}
MaxQueries == 3

\* the ranked lists a query can have
ResultLists == {<<UrlX1, UrlY>>, <<UrlY, UrlX2, UrlX1>>}

\* the sequences of pairwise distinct queries of length k
DistinctQueries(k) ==
    {q \in [1..k -> QueryNames] : \A i, j \in 1..k : q[i] = q[j] => i = j}

\* the mappings with at most n keys
Mappings(n) ==
    UNION {{[i \in 1..k |-> [query |-> q[i], urls |-> u[i]]] :
               q \in DistinctQueries(k), u \in [1..k -> ResultLists]} :
           k \in 0..n}

\* list(results.keys())
keys(results) == [i \in DOMAIN results |-> results[i].query]

\* q in results
Contains(results, q) == \E i \in DOMAIN results : results[i].query = q

\* results[q]
Lookup(results, q) ==
    results[CHOOSE i \in DOMAIN results : results[i].query = q].urls

\* the common queries taken in the candidate mapping's key order
CommonQueries_yahoo_order(g_results, y_results) ==
    LET InGoogle(q) == Contains(g_results, q)
    IN SelectSeq(keys(y_results), InGoogle)

\* [q for q in google_queries if q in yahoo_results]
CommonQueries(g_results, y_results) ==
    LET InYahoo(q) == Contains(y_results, q)
    IN SelectSeq(keys(g_results), InYahoo)

\* the emptiness test left out
AfterFilter_no_check(common) == "loop"

\* "if not common_queries: raise ValueError(...)", else on to the loop
AfterFilter(common) == IF common = <<>> THEN "raised" ELSE "loop"

\* a record whose overlap count carries over the previous record's count
Comparison_shared_matches(query, g_urls, y_urls, overlap_percent, spearman_coeff, m) ==
    [query |-> query,
     num_overlapping |->
         Len(m) + (IF comparisons = <<>> THEN 0
                   ELSE comparisons[Len(comparisons)].num_overlapping),
     percent_overlap |-> overlap_percent,
     spearman_coefficient |-> spearman_coeff,
     google_count |-> Len(g_urls),
     yahoo_count |-> Len(y_urls)]

\* the dict built for one query
Comparison(query, g_urls, y_urls, overlap_percent, spearman_coeff, m) ==
    [query |-> query,
     num_overlapping |-> Len(m),
     percent_overlap |-> overlap_percent,
     spearman_coefficient |-> spearman_coeff,
     google_count |-> Len(g_urls),
     yahoo_count |-> Len(y_urls)]

\* one pass of compare_search_results's loop body; none of the three calls
\* raises
Analyze(query, g_urls, y_urls) ==
    Comparison(query, g_urls, y_urls,
               calculate_percent_overlap(g_urls, y_urls).value,
               calculate_spearman_correlation(g_urls, y_urls).value,
               find_url_matches(g_urls, y_urls))

\* the re-rank loop body calling the global-rank correlation
AnalyzeRerank_global(query, g_urls, y_urls) ==
    Comparison(query, g_urls, y_urls,
               calculate_percent_overlap(g_urls, y_urls).value,
               calculate_spearman_correlation(g_urls, y_urls).value,
               find_url_matches(g_urls, y_urls))

\* one pass of compare_search_results_rerank's loop body
AnalyzeRerank(query, g_urls, y_urls) ==
    Comparison(query, g_urls, y_urls,
               calculate_percent_overlap(g_urls, y_urls).value,
               calculate_spearman_correlation_rerank(g_urls, y_urls).value,
               find_url_matches(g_urls, y_urls))

InitCompare ==
    /\ google_results \in Mappings(MaxQueries)
    /\ yahoo_results \in Mappings(MaxQueries)
    /\ rerank \in BOOLEAN
    /\ cpc = "start"
    /\ common_queries = <<>>
    /\ comparisons = <<>>
    /\ CmpIdle
    /\ NormIdle
    /\ IoIdle

\* the statements before the loop
Filter ==
    /\ cpc = "start"
    /\ common_queries' = CommonQueries(google_results, yahoo_results)
    /\ cpc' = AfterFilter(common_queries')
    /\ UNCHANGED <<google_results, yahoo_results, rerank, comparisons>>
    /\ UNCHANGED cmpVars
    /\ UNCHANGED normVars
    /\ UNCHANGED ioVars

CompareSearchResults == ~rerank /\ Filter

CompareSearchResultsRerank == rerank /\ Filter

\* the query of the next pass: enumerate(common_queries, 1) has handed out
\* as many queries as there are records
NextQuery == common_queries[Len(comparisons) + 1]

\* a mapping whose list for query q has been overwritten with its keys
Overwritten(results, q) ==
    [i \in DOMAIN results |->
        IF results[i].query = q
        THEN [results[i] EXCEPT !.urls = [j \in DOMAIN @ |-> normalized[@[j]]]]
        ELSE results[i]]

\* a loop pass whose calls normalize the reference list in place
AnalyzeQuery_in_place ==
    /\ cpc = "loop" /\ ~rerank
    /\ Len(comparisons) < Len(common_queries)
    /\ comparisons' =
           Append(comparisons,
                  Analyze(NextQuery, Lookup(google_results, NextQuery),
                          Lookup(yahoo_results, NextQuery)))
    /\ google_results' = Overwritten(google_results, NextQuery)
    /\ UNCHANGED <<yahoo_results, rerank, cpc, common_queries>>
    /\ UNCHANGED cmpVars
    /\ UNCHANGED normVars
    /\ UNCHANGED ioVars

AnalyzeQuery ==
    /\ cpc = "loop" /\ ~rerank
    /\ Len(comparisons) < Len(common_queries)
    /\ comparisons' =
           Append(comparisons,
                  Analyze(NextQuery, Lookup(google_results, NextQuery),
                          Lookup(yahoo_results, NextQuery)))
    /\ UNCHANGED <<google_results, yahoo_results, rerank, cpc, common_queries>>
    /\ UNCHANGED cmpVars
    /\ UNCHANGED normVars
    /\ UNCHANGED ioVars

AnalyzeQueryRerank ==
    /\ cpc = "loop" /\ rerank
    /\ Len(comparisons) < Len(common_queries)
    /\ comparisons' =
           Append(comparisons,
                  AnalyzeRerank(NextQuery, Lookup(google_results, NextQuery),
                                Lookup(yahoo_results, NextQuery)))
    /\ UNCHANGED <<google_results, yahoo_results, rerank, cpc, common_queries>>
    /\ UNCHANGED cmpVars
    /\ UNCHANGED normVars
    /\ UNCHANGED ioVars

\* "return comparisons" once the loop has run out
ReturnComparisons ==
    /\ cpc = "loop"
    /\ Len(comparisons) = Len(common_queries)
    /\ cpc' = "returned"
    /\ UNCHANGED <<google_results, yahoo_results, rerank, common_queries, comparisons>>
    /\ UNCHANGED cmpVars
    /\ UNCHANGED normVars
    /\ UNCHANGED ioVars

NextCompare ==
    \/ CompareSearchResults
    \/ CompareSearchResultsRerank
    \/ AnalyzeQuery
    \/ AnalyzeQueryRerank
    \/ ReturnComparisons

SpecCompare == InitCompare /\ [][NextCompare]_vars

\* the four functions called on their own or from the comparison loop
InitAll == Init \/ InitCompare

NextAll == Next \/ NextCompare

SpecAll == InitAll /\ [][NextAll]_vars

----------------------------------------------------------------------------
(* yahoo_client.py: fetch_query_html.  One step is one pass of the retry    *)
(* loop: the request and the handling of what it produced.  A request       *)
(* produces an HTTP status or raises a requests.RequestException (a         *)
(* time-out is one); writing the file is taken to succeed.                  *)

MaxRetries == 2

\* a retry set that takes 404 for a transient failure
Retryable_with_404 == {"404", "429", "500", "502", "503", "504"}

\* the statuses after which the loop retries
Retryable == {"429", "500", "502", "503", "504"}

Statuses == {"200", "403", "404"} \cup Retryable

RequestException == "RequestException"

\* what one call of requests.get can produce
Outcomes == Statuses \cup {RequestException}

Qids == {1, 2}
PageNumbers == <<1, 2, 3>>

\* the path save_html writes: RAW_HTML_DIR / f"yahoo-{qid:04d}-p{page}.html"
save_html(q, p) == <<"yahoo", q, "p", p>>

InitFetch ==
    /\ qid \in Qids
    /\ page \in Range(PageNumbers)
    /\ max_retries \in 0..MaxRetries
    /\ attempt = 0
    /\ responses = <<>>
    /\ fpc = "loop"
    /\ ok = FALSE
    /\ status_code = "None"
    /\ writes = <<>>
    /\ ExtractIdle
    /\ NormIdle /\ CmpIdle /\ AllIdle

\* the loop has a pass left to run
InLoop == fpc = "loop" /\ attempt < max_retries + 1

\* the call returns (ok, path_or_error, status_code)
ReturnFetch(outcome, result_ok, code) ==
    /\ responses' = Append(responses, outcome)
    /\ ok' = result_ok
    /\ status_code' = code
    /\ fpc' = "returned"
    /\ UNCHANGED <<qid, page, max_retries, attempt>>
    /\ UNCHANGED <<extractVars, normVars, cmpVars, allVars>>

\* "continue": the next pass runs with the next value of attempt
Continue(outcome) ==
    /\ responses' = Append(responses, outcome)
    /\ attempt' = attempt + 1
    /\ UNCHANGED <<qid, page, max_retries, fpc, ok, status_code, writes>>
    /\ UNCHANGED <<extractVars, normVars, cmpVars, allVars>>

\* status 200: save the HTML and return True
Success ==
    /\ InLoop
    /\ writes' = Append(writes, save_html(qid, page))
    /\ ReturnFetch("200", TRUE, "200")

\* a failure branch that saves the body before returning False
FailStatus_saving(outcome) ==
    /\ InLoop
    /\ outcome \in Statuses \ {"200"}
    /\ ~(outcome \in Retryable /\ attempt < max_retries)
    /\ writes' = Append(writes, save_html(qid, page))
    /\ ReturnFetch(outcome, FALSE, outcome)

\* a retryable status on an attempt that is not the last
RetryStatus(outcome) ==
    /\ InLoop
    /\ outcome \in Retryable /\ attempt < max_retries
    /\ Continue(outcome)

\* any other status: return False with the status
FailStatus(outcome) ==
    /\ InLoop
    /\ outcome \in Statuses \ {"200"}
    /\ ~(outcome \in Retryable /\ attempt < max_retries)
    /\ UNCHANGED writes
    /\ ReturnFetch(outcome, FALSE, outcome)

\* requests.get raised on an attempt that is not the last
RetryException ==
    /\ InLoop
    /\ attempt < max_retries
    /\ Continue(RequestException)

\* requests.get raised on the last attempt: return False with None
FailException ==
    /\ InLoop
    /\ ~(attempt < max_retries)
    /\ UNCHANGED writes
    /\ ReturnFetch(RequestException, FALSE, "None")

NextFetch ==
    \/ Success
    \/ \E outcome \in Statuses : RetryStatus(outcome)
    \/ \E outcome \in Statuses : FailStatus(outcome)
    \/ RetryException
    \/ FailException

SpecFetch == InitFetch /\ [][NextFetch]_vars

\* every pass ends: the sleeps are finite and requests.get has a time-out
SpecFetchLive == SpecFetch /\ WF_vars(NextFetch)

----------------------------------------------------------------------------
(* parser.py: the redirect decoder, the organic filter and the             *)
(* deduplicating normalizer.  The strings of this model hold characters    *)
(* with codes 32..126 only.                                                *)

\* the characters with codes 32..126, in code order; "GRAVE" holds the place
\* of the backquote (code 96), which no string of the model contains
Ascii ==
    <<" ", "!", "\"", "#", "$", "%", "&", "'", "(", ")", "*", "+", ",", "-", ".", "/",
      "0", "1", "2", "3", "4", "5", "6", "7", "8", "9", ":", ";", "<", "=", ">", "?",
      "@", "A", "B", "C", "D", "E", "F", "G", "H", "I", "J", "K", "L", "M", "N", "O",
      "P", "Q", "R", "S", "T", "U", "V", "W", "X", "Y", "Z", "[", "\\", "]", "^", "_",
      "GRAVE", "a", "b", "c", "d", "e", "f", "g", "h", "i", "j", "k", "l", "m", "n", "o",
      "p", "q", "r", "s", "t", "u", "v", "w", "x", "y", "z", "{", "|", "}", "~">>

Chr(code) == Ascii[code - 31]
Ord(c) == (CHOOSE i \in DOMAIN Ascii : Ascii[i] = c) + 31

HexDigits == <<"0","1","2","3","4","5","6","7","8","9","A","B","C","D","E","F">>

IsHex(c) == \E i \in DOMAIN HexDigits : LowerChar(HexDigits[i]) = LowerChar(c)
HexValue(c) == (CHOOSE i \in DOMAIN HexDigits : LowerChar(HexDigits[i]) = LowerChar(c)) - 1

\* str.find(p, start) for a substring p: the first index >= start at which p
\* occurs, 0 when there is none
FindSub(s, p, start) ==
    LET hits == {i \in start..(Len(s) - Len(p) + 1) : SubSeq(s, i, i + Len(p) - 1) = p}
    IN IF hits = {} THEN 0 ELSE Min(hits)

\* p in s
HasSub(s, p) == FindSub(s, p, 1) > 0

\* urllib.parse.unquote: %XX with two hex digits becomes the character with
\* that code, anything else stays
RECURSIVE UnquoteFrom(_, _)
UnquoteFrom(s, i) ==
    IF i > Len(s) THEN <<>>
    ELSE IF s[i] = "%" /\ i + 2 <= Len(s) /\ IsHex(s[i + 1]) /\ IsHex(s[i + 2])
    THEN <<Chr(16 * HexValue(s[i + 1]) + HexValue(s[i + 2]))>> \o UnquoteFrom(s, i + 3)
    ELSE <<s[i]>> \o UnquoteFrom(s, i + 1)

unquote(s) == UnquoteFrom(s, 1)

\* urllib.parse.quote_plus on one character: letters, digits and "_.-~" stay,
\* a space becomes "+", the rest becomes %XX
QuoteChar(c) ==
    IF IsAlpha(c) \/ c \in Digits \/ c \in {"_", ".", "-", "~"} THEN <<c>>
    ELSE IF c = " " THEN <<"+">>
    ELSE <<"%", HexDigits[(Ord(c) \div 16) + 1], HexDigits[(Ord(c) % 16) + 1]>>

RECURSIVE quote_plus(_)
quote_plus(s) == IF s = <<>> THEN <<>> ELSE QuoteChar(Head(s)) \o quote_plus(Tail(s))

\* str.split(c): the pieces between the occurrences of c
RECURSIVE SplitAll(_, _)
SplitAll(s, c) ==
    IF Find(s, c, 1) = 0 THEN <<s>>
    ELSE <<Slice(s, 1, Find(s, c, 1) - 1)>> \o SplitAll(Slice(s, Find(s, c, 1) + 1, Len(s)), c)

PlusToSpace(s) == [i \in DOMAIN s |-> IF s[i] = "+" THEN " " ELSE s[i]]

\* parse_qsl keeps a piece when it has "=" and something after it
HasValue(piece) == SplitOnce(piece, "=").tail # <<>>

NameValue(piece) ==
    [name |-> unquote(PlusToSpace(SplitOnce(piece, "=").head)),
     value |-> unquote(PlusToSpace(SplitOnce(piece, "=").tail))]

NameValues(pieces) == [i \in DOMAIN pieces |-> NameValue(pieces[i])]

\* urllib.parse.parse_qsl(query): the (name, value) pairs in order
parse_qsl(query) == NameValues(SelectSeq(SplitAll(query, "&"), HasValue))

\* the position a pair takes once parse_qs has grouped the values by name:
\* names in order of first occurrence, values in order within a name
FirstIndex(pairs, i) == Min({j \in DOMAIN pairs : pairs[j].name = pairs[i].name})

GroupedRank(pairs, i) ==
    Cardinality({j \in DOMAIN pairs :
        \/ FirstIndex(pairs, j) < FirstIndex(pairs, i)
        \/ (FirstIndex(pairs, j) = FirstIndex(pairs, i) /\ j < i)}) + 1

Grouped(pairs) ==
    [r \in DOMAIN pairs |-> pairs[CHOOSE i \in DOMAIN pairs : GroupedRank(pairs, i) = r]]

\* urllib.parse.parse_qs(query), as the items urlencode(doseq=True) walks
parse_qs(query) == Grouped(parse_qsl(query))

tracking_params ==
    { <<"u", "t", "m", "_", "s", "o", "u", "r", "c", "e">>,
      <<"u", "t", "m", "_", "m", "e", "d", "i", "u", "m">>,
      <<"u", "t", "m", "_", "c", "a", "m", "p", "a", "i", "g", "n">>,
      <<"u", "t", "m", "_", "t", "e", "r", "m">>,
      <<"u", "t", "m", "_", "c", "o", "n", "t", "e", "n", "t">>,
      <<"f", "b", "c", "l", "i", "d">>,
      <<"g", "c", "l", "i", "d">>,
      <<"r", "e", "f">>,
      <<"s", "o", "u", "r", "c", "e">>,
      <<"c", "a", "m", "p", "a", "i", "g", "n">>,
      <<"m", "e", "d", "i", "u", "m">>,
      <<"_", "g", "a">>,
      <<"_", "g", "i", "d">>,
      <<"m", "c", "_", "c", "i", "d">>,
      <<"m", "c", "_", "e", "i", "d">>,
      <<"a", "f", "f", "i", "l", "i", "a", "t", "e", "_", "i", "d">> }

NotTracking(pair) == lower(pair.name) \notin tracking_params

\* urllib.parse.urlencode(filtered_params, doseq=True)
RECURSIVE urlencode(_)
urlencode(pairs) ==
    IF pairs = <<>> THEN <<>>
    ELSE quote_plus(Head(pairs).name) \o <<"=">> \o quote_plus(Head(pairs).value)
         \o (IF Tail(pairs) = <<>> THEN <<>> ELSE <<"&">> \o urlencode(Tail(pairs)))

\* the query without its tracking parameters
FilteredQuery(query) ==
    IF query = <<>> THEN query
    ELSE urlencode(SelectSeq(parse_qs(query), NotTracking))

\* urlunparse of (scheme, netloc, path, params, query, no fragment) for the
\* scheme https
WithParams(path, params) == IF params # <<>> THEN path \o <<";">> \o params ELSE path

WithNetloc(netloc, url) ==
    IF netloc # <<>> \/ ~StartsWith(url, <<"/", "/">>)
    THEN <<"/", "/">> \o netloc
         \o (IF url # <<>> /\ Head(url) # "/" THEN <<"/">> ELSE <<>>) \o url
    ELSE url

urlunparse(netloc, path, params, query) ==
    <<"h", "t", "t", "p", "s", ":">> \o WithNetloc(netloc, WithParams(path, params))
    \o (IF query # <<>> THEN <<"?">> \o query ELSE <<>>)

\* netloc[4:] when netloc starts with "www."
StripWww(netloc) ==
    IF StartsWith(netloc, WwwDot) THEN Slice(netloc, 5, Len(netloc)) ELSE netloc

\* path[:-1] when the path ends with "/" and is not "/"
StripTrailingSlash(path) ==
    IF EndsWith(path, <<"/">>) /\ path # <<"/">>
    THEN Slice(path, 1, Len(path) - 1)
    ELSE path

NormalizeParsed(url, parsed) ==
    IF parsed.raised THEN url
    ELSE urlunparse(StripWww(parsed.netloc), StripTrailingSlash(parsed.path),
                    parsed.params, FilteredQuery(parsed.query))

\* parser.normalize_url: the key under which duplicates are detected
parser_normalize_url(url) ==
    IF url = <<>> THEN url ELSE NormalizeParsed(url, urlparse(strip(lower(url))))

YahooRedirectHost == <<"r", ".", "s", "e", "a", "r", "c", "h", ".", "y", "a", "h",
      "o", "o", ".", "c", "o", "m">>

RuPrefixes == << <<"/", "R", "U", "=">>, <<"&", "R", "U", "=">>, <<"?", "R", "U", "=">> >>

\* the end of the encoded URL: the first "&" or "/" from ru_start on, or the
\* end of the string
RuEnd(url, ru_start) ==
    Min({Len(url) + 1} \cup {i \in ru_start..Len(url) : url[i] \in {"&", "/"}})

DecodeFrom(url, ru_start) == unquote(Slice(url, ru_start, RuEnd(url, ru_start) - 1))

DecodeWith(url, prefix) == DecodeFrom(url, FindSub(url, prefix, 1) + Len(prefix))

\* decode_yahoo_url: the first of the three prefixes that occurs decides
decode_yahoo_url(url) ==
    IF HasSub(url, YahooRedirectHost) /\ \E n \in DOMAIN RuPrefixes : HasSub(url, RuPrefixes[n])
    THEN DecodeWith(url, RuPrefixes[Min({n \in DOMAIN RuPrefixes : HasSub(url, RuPrefixes[n])})])
    ELSE url

exclude_patterns ==
    { <<"y", "a", "h", "o", "o", ".", "c", "o", "m">>,
      <<"y", "a", "h", "o", "o", "a", "p", "i", "s", ".", "c", "o",
      "m">>,
      <<"y", "i", "m", "g", ".", "c", "o", "m">>,
      <<"f", "l", "i", "c", "k", "r", ".", "c", "o", "m">>,
      <<"t", "u", "m", "b", "l", "r", ".", "c", "o", "m">>,
      <<"a", "o", "l", ".", "c", "o", "m">>,
      <<"e", "n", "g", "a", "d", "g", "e", "t", ".", "c", "o", "m">>,
      <<"t", "e", "c", "h", "c", "r", "u", "n", "c", "h", ".", "c",
      "o", "m">>,
      <<"u", "s", "e", "r", "v", "o", "i", "c", "e", ".", "c", "o",
      "m">>,
      <<"j", "a", "v", "a", "s", "c", "r", "i", "p", "t", ":">>,
      <<"m", "a", "i", "l", "t", "o", ":">>,
      <<"t", "e", "l", ":">>,
      <<"f", "t", "p", ":">>,
      <<"#">> }

HasDomain(parsed) ==
    ~parsed.raised /\ parsed.netloc # <<>> /\ "." \in Range(parsed.netloc)

\* is_organic_url
is_organic_url(url) ==
    /\ url # <<>>
    /\ \/ StartsWith(lower(url), <<"h", "t", "t", "p", ":", "/", "/">>)
       \/ StartsWith(lower(url), <<"h", "t", "t", "p", "s", ":", "/", "/">>)
    /\ \A pattern \in exclude_patterns : ~HasSub(lower(url), pattern)
    /\ HasDomain(urlparse(url))

----------------------------------------------------------------------------
(* The redirect links of the model's pages *)
\* https://r.search.yahoo.com/_ylt=a/RU=http%3a%2f%2fwww.b.co%2fx%2f/RK=2
\* -> http://www.b.co/x/
HrefB1 ==
    <<"h", "t", "t", "p", "s", ":", "/", "/", "r", ".", "s", "e", "a", "r", "c", "h",
      ".", "y", "a", "h", "o", "o", ".", "c", "o", "m", "/", "_", "y", "l", "t", "=",
      "a", "/", "R", "U", "=", "h", "t", "t", "p", "%", "3", "a", "%", "2", "f", "%",
      "2", "f", "w", "w", "w", ".", "b", ".", "c", "o", "%", "2", "f", "x", "%", "2",
      "f", "/", "R", "K", "=", "2">>

\* https://r.search.yahoo.com/_ylt=a/RU=https%3a%2f%2fB.co%2fx%3fref%3d1/RK=2
\* -> https://B.co/x?ref=1
HrefB2 ==
    <<"h", "t", "t", "p", "s", ":", "/", "/", "r", ".", "s", "e", "a", "r", "c", "h",
      ".", "y", "a", "h", "o", "o", ".", "c", "o", "m", "/", "_", "y", "l", "t", "=",
      "a", "/", "R", "U", "=", "h", "t", "t", "p", "s", "%", "3", "a", "%", "2", "f",
      "%", "2", "f", "B", ".", "c", "o", "%", "2", "f", "x", "%", "3", "f", "r", "e",
      "f", "%", "3", "d", "1", "/", "R", "K", "=", "2">>

\* https://r.search.yahoo.com/cbclk?a=1&RU=https%3A%2F%2Fc.co%2F&RK=2
\* -> https://c.co/
HrefC ==
    <<"h", "t", "t", "p", "s", ":", "/", "/", "r", ".", "s", "e", "a", "r", "c", "h",
      ".", "y", "a", "h", "o", "o", ".", "c", "o", "m", "/", "c", "b", "c", "l", "k",
      "?", "a", "=", "1", "&", "R", "U", "=", "h", "t", "t", "p", "s", "%", "3", "A",
      "%", "2", "F", "%", "2", "F", "c", ".", "c", "o", "%", "2", "F", "&", "R", "K",
      "=", "2">>

\* https://r.search.yahoo.com/_ylt=a/RU=https%3a%2f%2fd.co%2fy%3fid%3d2%26utm_source%3da/RK=2
\* -> https://d.co/y?id=2&utm_source=a
HrefD ==
    <<"h", "t", "t", "p", "s", ":", "/", "/", "r", ".", "s", "e", "a", "r", "c", "h",
      ".", "y", "a", "h", "o", "o", ".", "c", "o", "m", "/", "_", "y", "l", "t", "=",
      "a", "/", "R", "U", "=", "h", "t", "t", "p", "s", "%", "3", "a", "%", "2", "f",
      "%", "2", "f", "d", ".", "c", "o", "%", "2", "f", "y", "%", "3", "f", "i", "d",
      "%", "3", "d", "2", "%", "2", "6", "u", "t", "m", "_", "s", "o", "u", "r", "c",
      "e", "%", "3", "d", "a", "/", "R", "K", "=", "2">>

\* https://r.search.yahoo.com/_ylt=a/RU=https%3a%2f%2fhelp.yahoo.com%2fkb/RK=2
\* -> https://help.yahoo.com/kb
HrefHelp ==
    <<"h", "t", "t", "p", "s", ":", "/", "/", "r", ".", "s", "e", "a", "r", "c", "h",
      ".", "y", "a", "h", "o", "o", ".", "c", "o", "m", "/", "_", "y", "l", "t", "=",
      "a", "/", "R", "U", "=", "h", "t", "t", "p", "s", "%", "3", "a", "%", "2", "f",
      "%", "2", "f", "h", "e", "l", "p", ".", "y", "a", "h", "o", "o", ".", "c", "o",
      "m", "%", "2", "f", "k", "b", "/", "R", "K", "=", "2">>

Hrefs == {HrefB1, HrefB2, HrefC, HrefD, HrefHelp}

\* each function evaluated once per link
decoded == [href \in Hrefs |-> decode_yahoo_url(href)]
DecodedUrls == {decoded[href] : href \in Hrefs}
organic == [url \in DecodedUrls |-> is_organic_url(url)]
dedup_key == [url \in DecodedUrls |-> parser_normalize_url(url)]

----------------------------------------------------------------------------
(* parser.py: parse_html_file and extract_top_k_from_multipage;            *)
(* generate_results.py: process_all_queries_with_logging.  A page is the   *)
(* list of hrefs of its redirect links, as soup.find_all returns them, or  *)
(* a missing file.                                                         *)

MaxLinks == 4
MaxK == 3

\* parse_html_file, the loop over redirect_links
RECURSIVE ParseLinks(_, _, _, _)
ParseLinks(redirect_links, i, organic_urls, seen_normalized) ==
    IF i > Len(redirect_links) THEN organic_urls
    ELSE IF redirect_links[i] = <<>> \/ ~organic[decoded[redirect_links[i]]]
    THEN ParseLinks(redirect_links, i + 1, organic_urls, seen_normalized)
    ELSE IF dedup_key[decoded[redirect_links[i]]] \in seen_normalized
    THEN ParseLinks(redirect_links, i + 1, organic_urls, seen_normalized)
    ELSE ParseLinks(redirect_links, i + 1,
                    Append(organic_urls, decoded[redirect_links[i]]),
                    seen_normalized \cup {dedup_key[decoded[redirect_links[i]]]})

parse_html_file(redirect_links) == ParseLinks(redirect_links, 1, <<>>, {})

\* all_urls[:n] for n >= 0
Prefix(all_urls, n) == SubSeq(all_urls, 1, Min({n, Len(all_urls)}))

\* the state of extract_top_k_from_multipage's loops
Collected(all_urls, seen_normalized, returned) ==
    [all_urls |-> all_urls, seen_normalized |-> seen_normalized, returned |-> returned]

\* an inner loop that compares the URL strings themselves
RECURSIVE AddPageUrls_exact(_, _, _, _, _)
AddPageUrls_exact(page_urls, i, all_urls, seen_normalized, n) ==
    IF i > Len(page_urls) THEN Collected(all_urls, seen_normalized, FALSE)
    ELSE IF page_urls[i] \in seen_normalized
    THEN AddPageUrls_exact(page_urls, i + 1, all_urls, seen_normalized, n)
    ELSE IF Len(all_urls) + 1 >= n
    THEN Collected(Prefix(Append(all_urls, page_urls[i]), n),
                   seen_normalized \cup {page_urls[i]}, TRUE)
    ELSE AddPageUrls_exact(page_urls, i + 1, Append(all_urls, page_urls[i]),
                           seen_normalized \cup {page_urls[i]}, n)

\* the inner loop: a URL whose key is new is appended, and the function
\* returns all_urls[:k] as soon as it holds k URLs
RECURSIVE AddPageUrls(_, _, _, _, _)
AddPageUrls(page_urls, i, all_urls, seen_normalized, n) ==
    IF i > Len(page_urls) THEN Collected(all_urls, seen_normalized, FALSE)
    ELSE IF dedup_key[page_urls[i]] \in seen_normalized
    THEN AddPageUrls(page_urls, i + 1, all_urls, seen_normalized, n)
    ELSE IF Len(all_urls) + 1 >= n
    THEN Collected(Prefix(Append(all_urls, page_urls[i]), n),
                   seen_normalized \cup {dedup_key[page_urls[i]]}, TRUE)
    ELSE AddPageUrls(page_urls, i + 1, Append(all_urls, page_urls[i]),
                     seen_normalized \cup {dedup_key[page_urls[i]]}, n)

\* the outer loop over pages 1, 2, 3; a missing file is passed over
RECURSIVE ExtractFrom(_, _, _, _)
ExtractFrom(html, p, c, n) ==
    IF c.returned \/ p > Len(PageNumbers) THEN c.all_urls
    ELSE IF ~html[p].exists THEN ExtractFrom(html, p + 1, c, n)
    ELSE ExtractFrom(html, p + 1,
                     AddPageUrls(parse_html_file(html[p].links), 1,
                                 c.all_urls, c.seen_normalized, n),
                     n)

extract_top_k_from_multipage(html, n) == ExtractFrom(html, 1, Collected(<<>>, {}, FALSE), n)

\* process_all_queries_with_logging: all_urls.extend(page_urls) for every
\* page whose file exists
RECURSIVE ExtendAll(_, _)
ExtendAll(html, p) ==
    IF p > Len(PageNumbers) THEN <<>>
    ELSE (IF html[p].exists THEN parse_html_file(html[p].links) ELSE <<>>)
         \o ExtendAll(html, p + 1)

\* "Remove duplicates": a URL is kept unless the same string came before
RECURSIVE UniqueUrls(_, _, _, _)
UniqueUrls(all_urls, i, seen, unique_urls) ==
    IF i > Len(all_urls) THEN unique_urls
    ELSE IF all_urls[i] \in seen THEN UniqueUrls(all_urls, i + 1, seen, unique_urls)
    ELSE UniqueUrls(all_urls, i + 1, seen \cup {all_urls[i]}, Append(unique_urls, all_urls[i]))

\* top_urls = unique_urls[:k]
TopUrlsWithLogging(html, n) == Prefix(UniqueUrls(ExtendAll(html, 1), 1, {}, <<>>), n)

available_pages(html) == {p \in DOMAIN html : html[p].exists}

RECURSIVE LinkLists(_)
LinkLists(n) ==
    IF n = 0 THEN {<<>>}
    ELSE LinkLists(n - 1)
         \cup {Append(l, href) : l \in {x \in LinkLists(n - 1) : Len(x) = n - 1}, href \in Hrefs}

\* the file of a page: missing, or holding the given links
Page(links, missing) ==
    IF missing THEN [exists |-> FALSE, links |-> <<>>] ELSE [exists |-> TRUE, links |-> links]

\* the links s cut into pages 1, 2, 3 after a and after b links; a page
\* without links may be a missing file
InitExtract ==
    /\ \E s \in LinkLists(MaxLinks), a \in 0..MaxLinks, b \in 0..MaxLinks,
          missing \in SUBSET Range(PageNumbers) :
          /\ a <= b /\ b <= Len(s)
          /\ 1 \in missing => a = 0
          /\ 2 \in missing => a = b
          /\ 3 \in missing => b = Len(s)
          /\ pages = <<Page(Slice(s, 1, a), 1 \in missing),
                       Page(Slice(s, a + 1, b), 2 \in missing),
                       Page(Slice(s, b + 1, Len(s)), 3 \in missing)>>
    /\ top_k \in 0..MaxK
    /\ epc = "start"
    /\ top_urls = <<>>
    /\ FetchIdle
    /\ NormIdle /\ CmpIdle /\ AllIdle

\* a call of extract_top_k_from_multipage for the query
ExtractTopKFromMultipage ==
    /\ epc = "start"
    /\ top_urls' = extract_top_k_from_multipage(pages, top_k)
    /\ epc' = "extracted"
    /\ UNCHANGED <<pages, top_k>>
    /\ UNCHANGED <<fetchVars, normVars, cmpVars, allVars>>

\* process_all_queries_with_logging's pass for the query: results[query_text]
\* = top_urls, or "continue" when none of its files exists
ProcessAllQueriesWithLogging ==
    /\ epc = "start"
    /\ IF available_pages(pages) = {}
       THEN epc' = "skipped" /\ top_urls' = <<>>
       ELSE epc' = "stored" /\ top_urls' = TopUrlsWithLogging(pages, top_k)
    /\ UNCHANGED <<pages, top_k>>
    /\ UNCHANGED <<fetchVars, normVars, cmpVars, allVars>>

NextExtract ==
    \/ ExtractTopKFromMultipage
    \/ ProcessAllQueriesWithLogging

SpecExtract == InitExtract /\ [][NextExtract]_vars

----------------------------------------------------------------------------
(* Claims about the normalizer, under SpecNormalize *)

\* two paths that are equal or differ by exactly one trailing slash
SameUpToSlash(a, b) == a = b \/ a = b \o <<"/">> \/ b = a \o <<"/">>

\* scheme://authority with an authority urlparse accepts
WellFormed(p) == p.scheme \in Schemes /\ "[" \notin Range(p.www \o p.host)

\* urlparse rejects the URL: it has an authority with an unbalanced "["
Rejected(p) == p.scheme \in Schemes /\ "[" \in Range(p.www \o p.host)

\* the URL without its surrounding whitespace
Trimmed(p) == Render([p EXCEPT !.ws1 = NoStr, !.ws2 = NoStr])

\* what follows the "?" or "#" marker
Content(part) == IF part = NoStr THEN NoStr ELSE Tail(part)

\* p and r differ at most in scheme, in a leading "www." label and in one
\* trailing path slash
DifferOnlyInSchemeWwwSlash(p, r) ==
    /\ p.www \in {NoStr, WwwDot} /\ r.www \in {NoStr, WwwDot}
    /\ p.host = r.host
    /\ SameUpToSlash(p.path, r.path)
    /\ p.params = r.params /\ p.query = r.query /\ p.frag = r.frag
    /\ p.ws1 = r.ws1 /\ p.ws2 = r.ws2

\* C5: two URLs that differ only in scheme (http or https), in a leading
\* "www." host label or in one trailing path slash have the same key, for
\* every host, path (the root path "/" against the empty path too), query
\* and fragment.
C5_SchemeWwwSlashSameKey ==
    (/\ npc = "done"
     /\ WellFormed(urlA) /\ WellFormed(urlB)
     /\ DifferOnlyInSchemeWwwSlash(urlA, urlB))
    => keyA = keyB

\* p and r differ in nothing but scheme, a leading literal "www." label,
\* one trailing path slash (surrounding whitespace is not part of the URL)
OriginalRelated(p, r) ==
    /\ p.www = r.www \/ (p.www \in {NoStr, WwwDot} /\ r.www \in {NoStr, WwwDot})
    /\ p.host = r.host
    /\ SameUpToSlash(p.path, r.path)
    /\ p.params = r.params /\ p.query = r.query /\ p.frag = r.frag

\* scheme://[www.]host[path][?query][#fragment] with nothing after an
\* empty marker and no ;parameters: only what C6 names is in play
Plain(p) ==
    /\ p.scheme \in Schemes
    /\ p.params = NoStr
    /\ p.query # <<"?">> /\ p.frag # <<"#">>

IsUrlCharacter(c) == c \notin {"\t", "\r", "\n"}

\* p and r differ in nothing but scheme, a leading "www." label in any
\* letter case, one trailing path slash, whitespace (around the URL, or a
\* tab, CR or LF inside it), the ;parameters and an empty "?" or "#" marker
AmendedRelated(p, r) ==
    /\ p.host = r.host
    /\ SameUpToSlash(SelectSeq(p.path, IsUrlCharacter), SelectSeq(r.path, IsUrlCharacter))
    /\ Content(p.query) = Content(r.query)
    /\ Content(p.frag) = Content(r.frag)

C7_NormalizeTotal ==
    /\ ~raisedN /\ npc # "raised"
    /\ npc \in {"a_done", "done"} =>
          /\ Rejected(urlA) => keyA = Trimmed(urlA)
          /\ Render(urlA) = <<>> => keyA = <<>>
    /\ npc = "done" =>
          /\ Rejected(urlB) => keyB = Trimmed(urlB)
          /\ Render(urlB) = <<>> => keyB = <<>>

\* a rejected input with whitespace around it, and the empty input, both
\* normalized
C7_Witness ==
    /\ npc = "done"
    /\ Rejected(urlA) /\ urlA.ws1 # NoStr /\ urlA.ws2 # NoStr
    /\ keyA = Trimmed(urlA) /\ keyA # Render(urlA)
    /\ Render(urlB) = <<>> /\ keyB = <<>>

----------------------------------------------------------------------------
(* Claims about the comparator, under Spec *)

\* the normalized key of the entry at a 1-based position
KeyA(i) == normalized[google_urls[i]]
KeyB(j) == normalized[yahoo_urls[j]]

\* the positions of listB whose key is that of listA's position i
SameKeyPositions(i) == {j \in DOMAIN yahoo_urls : KeyB(j) = KeyA(i)}

\* the positions of listA that have a non-empty key found in listB
MatchedPositions == {i \in DOMAIN google_urls : KeyA(i) # <<>> /\ SameKeyPositions(i) # {}}

Abs(x) == IF x < 0 THEN -x ELSE x

\* v is num / den rounded to the nearest integer
IsRounded(v, num, den) == 2 * Abs(v * den - num) <= den

\* C1: for any two lists, duplicates and empty entries included, the value
\* calculate_spearman_correlation_rerank returns lies in [-1.0, 1.0].
C1_RerankWithinBounds ==
    (op = "calculate_spearman_correlation_rerank" /\ ~raised)
    => (-1000 <= value /\ value <= 1000)

\* C2: find_url_matches holds the pair (i, j) exactly when listA[i]'s key is
\* non-empty and j is the smallest position of listB with an equal key.
C2_MatchesAreFirstEqualKey ==
    op = "find_url_matches" =>
        Range(matches) =
            {<<i, Min(SameKeyPositions(i))>> : i \in MatchedPositions}

\* a match whose key occurs twice in listB, beside a listA entry with no match
C2_Witness ==
    /\ op = "find_url_matches"
    /\ \E i \in MatchedPositions : Cardinality(SameKeyPositions(i)) >= 2
    /\ \E i \in DOMAIN google_urls : KeyA(i) # <<>> /\ i \notin MatchedPositions
    /\ matches # <<>>

\* C3: the matches are strictly increasing in the listA position, so each
\* listA position occurs in at most one match.
C3_MatchesIncreasingInA ==
    op = "find_url_matches" =>
        \A k \in 1..(Len(matches) - 1) : matches[k][1] < matches[k + 1][1]

\* three matches, two of them for a key that occurs twice in listB
C3_Witness ==
    /\ op = "find_url_matches"
    /\ Len(matches) = 3
    /\ \E i \in MatchedPositions : Cardinality(SameKeyPositions(i)) >= 2

\* C4: in every match both entries have a non-empty key, whatever else the
\* lists hold.
C4_EmptyKeyNeverMatches ==
    op = "find_url_matches" =>
        \A k \in DOMAIN matches :
            KeyA(matches[k][1]) # <<>> /\ KeyB(matches[k][2]) # <<>>

\* both lists hold an empty-key entry, and there is a match past them
C4_Witness ==
    /\ op = "find_url_matches"
    /\ \E i \in DOMAIN google_urls : KeyA(i) = <<>>
    /\ \E j \in DOMAIN yahoo_urls : KeyB(j) = <<>>
    /\ \E k \in DOMAIN matches : matches[k][1] > 1 /\ matches[k][2] > 1
    /\ Len(matches) < Len(google_urls)

\* C8: for a non-empty listA the overlap is 100 * matches / |listA| rounded
\* to one decimal, with listA's length as the denominator, and lies in
\* [0, 100].
C8_PercentOverlapOfListA ==
    (op = "calculate_percent_overlap" /\ google_urls # <<>>) =>
        /\ ~raised
        /\ IsRounded(value, 1000 * Cardinality(MatchedPositions), Len(google_urls))
        /\ 0 <= value /\ value <= 1000

\* two of three listA entries match, against a listB of another length: 66.7
C8_Witness ==
    /\ op = "calculate_percent_overlap"
    /\ Len(google_urls) = 3 /\ Len(yahoo_urls) = 2
    /\ Cardinality(MatchedPositions) = 2
    /\ value = 667

\* C9: for an empty listA the overlap is 0.0, for every listB, and no
\* division is performed.
C9_EmptyListAGivesZero ==
    (op = "calculate_percent_overlap" /\ google_urls = <<>>) =>
        value = 0 /\ ~divided /\ ~raised

\* the overlap of the empty list against a non-empty one
C9_Witness ==
    /\ op = "calculate_percent_overlap"
    /\ google_urls = <<>> /\ yahoo_urls # <<>>
    /\ value = 0 /\ ~divided

\* (positionA - positionB)^2 of the match at listA position i, on the
\* original 1-based positions
OriginalDSquared(i) ==
    (i - Min(SameKeyPositions(i))) * (i - Min(SameKeyPositions(i)))

\* S: the sum of OriginalDSquared over a set of listA positions
RECURSIVE SumOriginalDSquared(_)
SumOriginalDSquared(positions) ==
    IF positions = {} THEN 0
    ELSE LET i == CHOOSE x \in positions : TRUE
         IN OriginalDSquared(i) + SumOriginalDSquared(positions \ {i})

SpearmanOps == {"calculate_spearman_correlation", "calculate_spearman_correlation_rerank"}

\* C11: when the two lists share no non-empty key (either list may be
\* empty), calculate_spearman_correlation and
\* calculate_spearman_correlation_rerank both return 0.0.
C11_NoSharedKeyGivesZero ==
    (op \in SpearmanOps /\ MatchedPositions = {}) =>
        (~raised /\ value = 0 /\ ~divided)

\* the re-rank correlation of two non-empty lists of non-empty keys that
\* share none
C11_Witness ==
    /\ op = "calculate_spearman_correlation_rerank"
    /\ Len(google_urls) >= 2 /\ Len(yahoo_urls) >= 2
    /\ \A i \in DOMAIN google_urls : KeyA(i) # <<>>
    /\ \A j \in DOMAIN yahoo_urls : KeyB(j) # <<>>
    /\ MatchedPositions = {}
    /\ value = 0

\* C12: with exactly one match (positionA, positionB) both correlation
\* functions return 1.0 if positionA = positionB and 0.0 otherwise.
C12_SingleMatchOneOrZero ==
    (op \in SpearmanOps /\ Cardinality(MatchedPositions) = 1) =>
        LET positionA == CHOOSE i \in MatchedPositions : TRUE
            positionB == Min(SameKeyPositions(positionA))
        IN /\ ~raised
           /\ value = IF positionA = positionB THEN 1000 ELSE 0

\* a single match at rank 2 of both lists, scored 1.0 by the global-rank
\* function
C12_Witness ==
    /\ op = "calculate_spearman_correlation"
    /\ MatchedPositions = {2}
    /\ Min(SameKeyPositions(2)) = 2
    /\ value = 1000

\* the listB positions of the matches are pairwise distinct
DistinctPositionsB ==
    \A k, l \in DOMAIN matches : matches[k][2] = matches[l][2] => k = l

\* C13: for matches at listA positions [1,5,6,7] paired with listB positions
\* [1,9,2,6], calculate_spearman_correlation_rerank re-ranks the A side to
\* [1,2,3,4] and the B side to [1,4,2,3] and returns 0.4; and whenever the
\* matches have pairwise distinct B positions, the B re-rank of a match is
\* the number of matched B positions less than or equal to its own.
C13_RerankExampleAndRule ==
    op = "calculate_spearman_correlation_rerank" =>
        /\ (google_urls \in ExampleListsA /\ yahoo_urls \in ExampleListsB) =>
              /\ matches = << <<1, 1>>, <<5, 9>>, <<6, 2>>, <<7, 6>> >>
              /\ google_reranks = <<1, 2, 3, 4>>
              /\ yahoo_reranks = <<1, 4, 2, 3>>
              /\ value = 400
        /\ (Len(matches) >= 2 /\ DistinctPositionsB) =>
              /\ DOMAIN yahoo_reranks = DOMAIN matches
              /\ \A k \in DOMAIN matches :
                    yahoo_reranks[k] =
                        Cardinality({l \in DOMAIN matches : matches[l][2] <= matches[k][2]})

\* the example's lists, in spellings that differ between the two lists,
\* scored 0.4
C13_Witness ==
    /\ op = "calculate_spearman_correlation_rerank"
    /\ google_urls \in ExampleListsA /\ yahoo_urls \in ExampleListsB
    /\ google_urls[1] # yahoo_urls[1]
    /\ yahoo_reranks = <<1, 4, 2, 3>>
    /\ value = 400

\* C16: matching does not mark listB positions as claimed: for
\* listA = [X, X] and listB = [Y, X], X and Y of different keys,
\* find_url_matches returns exactly [(1, 2), (2, 2)]; and every listA
\* position whose key occurs in listB is matched to that key's first listB
\* position, even if an earlier listA position already matched it.
C16_GreedyWithoutClaiming ==
    op = "find_url_matches" =>
        /\ ( /\ Len(google_urls) = 2 /\ Len(yahoo_urls) = 2
             /\ google_urls[1] = google_urls[2]
             /\ yahoo_urls[2] = google_urls[1]
             /\ KeyA(1) # <<>>
             /\ KeyB(1) # KeyA(1) )
           => matches = << <<1, 2>>, <<2, 2>> >>
        /\ \A i \in DOMAIN google_urls :
              (KeyA(i) # <<>> /\ SameKeyPositions(i) # {}) =>
                  \E k \in DOMAIN matches : matches[k] = <<i, Min(SameKeyPositions(i))>>

\* listA = [X, X] against listB = [Y, X]: both listA positions hold listB
\* position 2
C16_Witness ==
    /\ op = "find_url_matches"
    /\ google_urls = <<UrlX1, UrlX1>>
    /\ yahoo_urls = <<UrlY, UrlX1>>
    /\ matches = << <<1, 2>>, <<2, 2>> >>

\* s holds each of 1..n exactly once
IsPermutation(s, n) == Len(s) = n /\ Range(s) = 1..n

\* C18: whenever calculate_spearman_correlation_rerank is computed for
\* n >= 2 matches, the listA re-ranks and the listB re-ranks are both
\* permutations of 1..n, duplicate URLs in listA included.
C18_ReranksArePermutations ==
    (op = "calculate_spearman_correlation_rerank" /\ Len(matches) >= 2) =>
        /\ IsPermutation(google_reranks, Len(matches))
        /\ IsPermutation(yahoo_reranks, Len(matches))

\* C19: matches that share one listB position get distinct listB re-ranks,
\* increasing in the order of their listA positions.
C19_SharedPositionBGetsDistinctReranks ==
    (op = "calculate_spearman_correlation_rerank" /\ Len(matches) >= 2) =>
        \A k, l \in DOMAIN matches :
            (k < l /\ matches[k][2] = matches[l][2]) =>
                yahoo_reranks[k] < yahoo_reranks[l]

\* C20: in both correlation functions the formula is reached only with
\* n >= 2 matches, its denominator n * (n^2 - 1) is then at least 6, and
\* the "denominator == 0" branch is never taken.
C20_DenominatorNeverZero ==
    LET n == Cardinality(MatchedPositions)
    IN op \in SpearmanOps =>
           /\ denominator # 0
           /\ denominator # -1 =>
                 /\ n >= 2
                 /\ denominator = n * (n * n - 1)
                 /\ denominator >= 6
                 /\ divided
           /\ n >= 2 => denominator # -1

\* the global-rank formula reached with the fewest matches it can have:
\* n = 2 and a denominator of 6
C20_Witness ==
    /\ op = "calculate_spearman_correlation"
    /\ Cardinality(MatchedPositions) = 2
    /\ denominator = 6
    /\ divided

\* the listB position matched to listA position i
PositionB(i) == Min(SameKeyPositions(i))

AllEqualPositions == \A i \in MatchedPositions : PositionB(i) = i

\* C27 as stated: the global-rank correlation is at most 1.0, and with
\* n >= 2 matches it is 1.0 exactly when every match has
\* positionA = positionB.
C27_OneIffAllPositionsEqual ==
    op = "calculate_spearman_correlation" =>
        /\ value <= 1000
        /\ Cardinality(MatchedPositions) >= 2 =>
              (value = 1000 <=> AllEqualPositions)

\* C27, amended: the global-rank correlation is at most 1.0; with n >= 2
\* matches it is 1.0 whenever every match has positionA = positionB, and
\* otherwise only when 6 * S / (n * (n^2 - 1)) rounds to 0.000, S being the
\* sum of squared position differences, which takes at least 23 matches.
C27_OneIffDifferenceRoundsAway ==
    LET n == Cardinality(MatchedPositions)
        S == SumOriginalDSquared(MatchedPositions)
        den == n * (n * n - 1)
    IN op = "calculate_spearman_correlation" =>
           /\ value <= 1000
           /\ n >= 2 =>
                 /\ AllEqualPositions => value = 1000
                 /\ value = 1000 => 12000 * S <= den
                 /\ 12000 * S < den => value = 1000
                 /\ (value = 1000 /\ ~AllEqualPositions) => n >= 23

\* 23 matches, the last at positions (23, 24): 1 - 6 / 12144 is returned
\* as 1.0
C27_Witness ==
    /\ op = "calculate_spearman_correlation"
    /\ Cardinality(MatchedPositions) = 23
    /\ PositionB(23) = 24
    /\ SumOriginalDSquared(MatchedPositions) = 1
    /\ value = 1000

\* the non-empty keys of listA are pairwise distinct
DistinctKeysA ==
    \A i, j \in DOMAIN google_urls :
        (KeyA(i) # <<>> /\ KeyA(i) = KeyA(j)) => i = j

\* C28: if the non-empty keys of listA are pairwise distinct, the matched
\* listB positions are pairwise distinct, the listB re-ranks of
\* calculate_spearman_correlation_rerank are a permutation of 1..n, and the
\* result lies in [-1, 1].
C28_DistinctKeysGivePermutation ==
    (op = "calculate_spearman_correlation_rerank" /\ DistinctKeysA) =>
        /\ ~raised
        /\ \A i, j \in MatchedPositions : PositionB(i) = PositionB(j) => i = j
        /\ DistinctPositionsB
        /\ Len(matches) >= 2 => IsPermutation(yahoo_reranks, Len(matches))
        /\ -1000 <= value /\ value <= 1000

\* two distinct keys matched at listB positions 3 and 1, re-ranked 2 and 1
C28_Witness ==
    /\ op = "calculate_spearman_correlation_rerank"
    /\ DistinctKeysA
    /\ matches = << <<1, 3>>, <<2, 1>> >>
    /\ yahoo_reranks = <<2, 1>>
    /\ value = -1000

\* the n >= 2 matches are at listA positions 1..n and at listB positions
\* that are a permutation of 1..n
DensePositions ==
    LET n == Cardinality(MatchedPositions)
    IN /\ n >= 2
       /\ MatchedPositions = 1..n
       /\ {PositionB(i) : i \in MatchedPositions} = 1..n

\* C29: when the matched positions are dense on both sides, a call of one
\* correlation function followed by a call of the other on the same lists
\* returns the same value.
C29_DensePositionsSameValue ==
    [][ ( /\ DensePositions
          /\ op \in SpearmanOps /\ op' \in SpearmanOps /\ op' # op )
        => value' = value ]_vars

\* listB is listA reversed: both functions return -1.0
C29_Witness ==
    /\ op = "calculate_spearman_correlation_rerank"
    /\ DensePositions
    /\ Len(google_urls) = 2 /\ Len(yahoo_urls) = 2
    /\ value = -1000

----------------------------------------------------------------------------
(* Claims about the comparison of two mappings, under SpecCompare *)

\* the keys of a mapping, and the queries that are keys of both
KeySet(results) == {results[i].query : i \in DOMAIN results}
CommonKeys == KeySet(google_results) \cap KeySet(yahoo_results)

\* where a query stands in the reference mapping's key order
ReferenceIndex(q) == CHOOSE i \in DOMAIN google_results : google_results[i].query = q

\* C14: the comparison returns exactly one record per query that is a key of
\* both mappings, in the order of the reference mapping's keys; a query that
\* is a key of one mapping only has no record, so there are as many records
\* as common keys.
C14_OneResultPerCommonQueryInReferenceOrder ==
    cpc = "returned" =>
        /\ {comparisons[k].query : k \in DOMAIN comparisons} = CommonKeys
        /\ Len(comparisons) = Cardinality(CommonKeys)
        /\ \A k, l \in DOMAIN comparisons :
              k < l => ReferenceIndex(comparisons[k].query)
                         < ReferenceIndex(comparisons[l].query)
        /\ \A k \in DOMAIN comparisons :
              /\ comparisons[k].google_count
                    = Len(Lookup(google_results, comparisons[k].query))
              /\ comparisons[k].yahoo_count
                    = Len(Lookup(yahoo_results, comparisons[k].query))

\* two common queries that the candidate mapping lists in the opposite
\* order, beside a reference-only and a candidate-only query
C14_Witness ==
    /\ cpc = "returned"
    /\ Len(comparisons) = 2
    /\ KeySet(google_results) \ KeySet(yahoo_results) # {}
    /\ KeySet(yahoo_results) \ KeySet(google_results) # {}
    /\ \E i, j \in DOMAIN yahoo_results :
          /\ i < j
          /\ yahoo_results[i].query = comparisons[2].query
          /\ yahoo_results[j].query = comparisons[1].query

\* C15: the comparison fails with the no-common-queries error exactly when
\* no key of the reference mapping is a key of the candidate mapping (either
\* mapping may be empty); it then produces no record.
C15_RaisesIffNoCommonQuery ==
    cpc # "start" =>
        /\ cpc = "raised" <=> CommonKeys = {}
        /\ cpc = "raised" => comparisons = <<>>

\* the error raised for two non-empty mappings without a common key
C15_Witness ==
    /\ cpc = "raised"
    /\ google_results # <<>> /\ yahoo_results # <<>>
    /\ CommonKeys = {}
    /\ comparisons = <<>>

\* the pair of lists a record was computed from
ListsOf(c) == <<Lookup(google_results, c.query), Lookup(yahoo_results, c.query)>>

\* the numbers a record holds
MetricsOf(c) == <<c.num_overlapping, c.percent_overlap, c.spearman_coefficient>>

MatchedIn(g_urls, y_urls) ==
    {i \in DOMAIN g_urls :
        /\ normalized[g_urls[i]] # <<>>
        /\ \E j \in DOMAIN y_urls : normalized[y_urls[j]] = normalized[g_urls[i]]}

\* record c agrees with the lists g_urls and y_urls of its query
ConsistentWith(c, g_urls, y_urls) ==
    /\ c.num_overlapping = Len(find_url_matches(g_urls, y_urls))
    /\ c.num_overlapping = Cardinality(MatchedIn(g_urls, y_urls))
    /\ c.percent_overlap = calculate_percent_overlap(g_urls, y_urls).value
    /\ g_urls # <<>> =>
          IsRounded(c.percent_overlap, 1000 * c.num_overlapping, Len(g_urls))
    /\ c.spearman_coefficient =
          IF rerank
          THEN calculate_spearman_correlation_rerank(g_urls, y_urls).value
          ELSE calculate_spearman_correlation(g_urls, y_urls).value
    /\ c.google_count = Len(g_urls)
    /\ c.yahoo_count = Len(y_urls)

\* C22: every record of the comparison agrees with its query's two lists:
\* the match count is the number of matches, the overlap is
\* calculate_percent_overlap's value, the correlation is the value of the
\* policy's function, the two counts are the lists' lengths; count and
\* overlap do not depend on the policy.
C22_RecordsConsistentWithLists ==
    \A k \in DOMAIN comparisons :
        ConsistentWith(comparisons[k],
                       Lookup(google_results, comparisons[k].query),
                       Lookup(yahoo_results, comparisons[k].query))

\* a returned comparison under the re-rank policy with a record whose
\* lists differ in length and whose correlation the global-rank policy
\* would score differently
C22_Witness ==
    /\ cpc = "returned" /\ rerank
    /\ \E k \in DOMAIN comparisons :
          /\ comparisons[k].google_count = 3
          /\ comparisons[k].yahoo_count = 2
          /\ comparisons[k].num_overlapping = 3
          /\ comparisons[k].percent_overlap = 1000
          /\ comparisons[k].spearman_coefficient
                # calculate_spearman_correlation(
                      Lookup(google_results, comparisons[k].query),
                      Lookup(yahoo_results, comparisons[k].query)).value

\* C30: the comparison and the functions it calls leave their inputs as they
\* were: after every step both mappings hold the same queries with the same
\* lists, each with the same elements in the same order.
C30_InputsUnchanged ==
    [][/\ google_urls' = google_urls /\ yahoo_urls' = yahoo_urls
       /\ google_results' = google_results
       /\ yahoo_results' = yahoo_results]_vars

\* a returned re-rank comparison of three queries, the lists of each passed
\* to all three functions
C30_Witness ==
    /\ cpc = "returned" /\ rerank
    /\ Len(comparisons) = 3
    /\ \A k \in DOMAIN comparisons : comparisons[k].num_overlapping >= 2

----------------------------------------------------------------------------
(* Claims about fetch_query_html *)

\* the statuses that allow a further request
RetryStatuses == {"429", "500", "502", "503", "504"}

\* what the latest request produced
LastResponse == responses[Len(responses)]

\* the latest request was not the last one allowed: its attempt index,
\* counted from 0, is below max_retries
NotLastAttempt == Len(responses) - 1 < max_retries

\* C25: fetch_query_html terminates after at most max_retries + 1 requests;
\* a further request follows only a 429/500/502/503/504 status or a request
\* exception on an attempt that is not the last; any other non-200 status
\* ends the call with a failure at once.
C25_TerminatesWithinRetries ==
    /\ [](Len(responses) <= max_retries + 1)
    /\ <>(fpc = "returned")
    /\ [][(Len(responses') > Len(responses) /\ responses # <<>>)
            => /\ LastResponse \in RetryStatuses \cup {"RequestException"}
               /\ NotLastAttempt]_vars
    /\ []((responses # <<>>
            /\ LastResponse \notin RetryStatuses \cup {"200", "RequestException"})
           => (fpc = "returned" /\ ~ok /\ status_code = LastResponse))

\* a call that used all of its three requests: a retryable status, then an
\* exception, then a status that ends it
C25_Witness ==
    /\ fpc = "returned" /\ max_retries = 2
    /\ Len(responses) = max_retries + 1
    /\ responses[1] \in RetryStatuses
    /\ responses[2] = "RequestException"
    /\ responses[3] = "404"

----------------------------------------------------------------------------
(* Claims about the extraction of the top k URLs *)

OrganicLink(href) == href # <<>> /\ organic[decoded[href]]

\* the organic URLs of pages 1, 2, 3, in order of appearance
CandidateUrls ==
    [i \in DOMAIN SelectSeq(pages[1].links \o pages[2].links \o pages[3].links, OrganicLink)
        |-> decoded[SelectSeq(pages[1].links \o pages[2].links \o pages[3].links,
                              OrganicLink)[i]]]

\* the positions at which a key appears for the first time
FirstPositions ==
    {i \in DOMAIN CandidateUrls :
        \A j \in 1..(i - 1) : dedup_key[CandidateUrls[j]] # dedup_key[CandidateUrls[i]]}

\* the m-th of them
NthFirst(m) ==
    CHOOSE i \in FirstPositions : Cardinality({j \in FirstPositions : j < i}) = m - 1

DistinctKeys(urls) ==
    \A i, j \in DOMAIN urls : i < j => dedup_key[urls[i]] # dedup_key[urls[j]]

\* C23: extract_top_k_from_multipage returns at most k URLs with pairwise
\* different deduplication keys, in order of first appearance across pages
\* 1, 2, 3: the first k first-appearances, and fewer than k only when the
\* pages hold fewer than k distinct keys.
C23_TopKDistinctInOrder ==
    epc = "extracted" =>
        /\ Len(top_urls) <= top_k
        /\ DistinctKeys(top_urls)
        /\ Len(top_urls) = Min({top_k, Cardinality(FirstPositions)})
        /\ \A m \in DOMAIN top_urls : top_urls[m] = CandidateUrls[NthFirst(m)]

\* k = 2 and three distinct keys on the pages: page 1 holds one URL, page 2
\* starts with a duplicate of it under another spelling, and the call
\* returns after the second key without reaching the third
C23_Witness ==
    /\ epc = "extracted" /\ top_k = 2
    /\ pages[1].links = <<HrefB1>>
    /\ pages[2].links = <<HrefB2, HrefC>>
    /\ pages[3].links = <<HrefD>>
    /\ top_urls = <<decoded[HrefB1], decoded[HrefC]>>
    /\ Cardinality(FirstPositions) = 3

\* C24: the list process_all_queries_with_logging stores for a query holds no
\* two URLs with the same deduplication key, also when the duplicates come
\* from different pages.
C24_StoredListHasDistinctKeys ==
    epc = "stored" => DistinctKeys(top_urls)

====
